---- MODULE Spec2Model ----
(***************************************************************************)
(* Smart-grid monitor: the FLISR engine (fault-distance estimator,         *)
(* restoration planner, workflow orchestrator) together with the other     *)
(* writers of the same store (telemetry ingestion, notification mark-read, *)
(* relay control).                                                         *)
(*                                                                         *)
(* Numbers.  A JavaScript number is a record [kind, val]: kind is          *)
(* "finite", "NaN" or "Infinity", and val is the value in a fixed unit:    *)
(*   length_km          kilometres                                         *)
(*   inductance_h_km    microhenry per kilometre                           *)
(*   capacitance_f_km   nanofarad per kilometre                            *)
(*   propagation speed  metres per microsecond                             *)
(*   distances          half millimetres                                   *)
(*   confidence         hundredths                                         *)
(* A finite number is a binary floating-point value with MANTISSA_BITS     *)
(* significant bits whose magnitude stays below MAX_VALUE: the result of   *)
(* an operation is rounded to the nearest such value, ties to even, and    *)
(* becomes an infinity when it is too large.  The double of the program    *)
(* has 53 significant bits; the model keeps fewer so that roundings and    *)
(* overflows happen for values the checker can hold.                       *)
(* A bigint (nanosecond timestamp, timestamp delta) is a pair <<hi, lo>>   *)
(* that stands for hi * LIMB + lo with 0 <= lo < LIMB.  The time delta in  *)
(* seconds is carried as its exact nanosecond count.                       *)
(***************************************************************************)
EXTENDS Integers, Sequences, FiniteSets, TLC

\* ------------------------------------------------------------------------
\* Numbers and errors
\* ------------------------------------------------------------------------

LIMB == 2 ^ 27

Finite(v) == [kind |-> "finite", val |-> v]

NotANumber == [kind |-> "NaN", val |-> 0]

PositiveInfinity == [kind |-> "Infinity", val |-> 0]

NegativeInfinity == [kind |-> "-Infinity", val |-> 0]

IsFinite(x) == x.kind = "finite"

Ok(v) == [ok |-> TRUE, value |-> v]

\* new Error(message): the name of a plain Error is "Error".
Throw(name, message) == [ok |-> FALSE, error |-> [name |-> name, message |-> message]]

Abs(n) == IF n < 0 THEN -n ELSE n

\* Significant bits of a finite number.
MANTISSA_BITS == 17

\* Number.MAX_VALUE: a result of this magnitude or more is an infinity.
MAX_VALUE == 2 ^ 30

\* The spacing of the numbers around n >= 0.
RECURSIVE UlpFrom(_, _)
UlpFrom(n, q) == IF n \div q < 2 ^ MANTISSA_BITS THEN q ELSE UlpFrom(n, 2 * q)

Ulp(n) == UlpFrom(n, 1)

\* n >= 0 rounded to the nearest number, ties to the even significand.
RoundToNearest(n) ==
    LET q == Ulp(n)
        lo == (n \div q) * q
        r == n - lo
    IN  IF r > q - r \/ (r = q - r /\ q > 1 /\ (n \div q) % 2 = 1) THEN lo + q ELSE lo

\* The number an operation with the exact result n returns.
Fl(n) ==
    LET m == RoundToNearest(Abs(n))
    IN  IF m >= MAX_VALUE THEN (IF n < 0 THEN NegativeInfinity ELSE PositiveInfinity)
        ELSE Finite(IF n < 0 THEN -m ELSE m)

FNeg(x) ==
    CASE x.kind = "finite" -> Finite(-x.val)
      [] x.kind = "Infinity" -> NegativeInfinity
      [] x.kind = "-Infinity" -> PositiveInfinity
      [] OTHER -> NotANumber

\* x + y
FAdd(x, y) ==
    CASE x.kind = "NaN" \/ y.kind = "NaN" -> NotANumber
      [] x.kind = "finite" /\ y.kind = "finite" -> Fl(x.val + y.val)
      [] x.kind = "finite" -> y
      [] y.kind = "finite" -> x
      [] x.kind = y.kind -> x
      [] OTHER -> NotANumber

\* x - y
FSub(x, y) == FAdd(x, FNeg(y))

\* x < y
FLess(x, y) ==
    CASE x.kind = "NaN" \/ y.kind = "NaN" -> FALSE
      [] x.kind = "finite" /\ y.kind = "finite" -> x.val < y.val
      [] x.kind = "-Infinity" -> y.kind # "-Infinity"
      [] y.kind = "Infinity" -> x.kind # "Infinity"
      [] OTHER -> FALSE

\* Math.abs
FAbs(x) == IF x.kind = "finite" THEN Finite(Abs(x.val))
           ELSE IF x.kind = "NaN" THEN NotANumber ELSE PositiveInfinity

\* 2 * x for a finite x with 2 * |x| < 2 * MAX_VALUE, or an infinity: exact.
FTwice(x) == IF x.kind = "finite" THEN Finite(2 * x.val) ELSE x

RECURSIVE SqrtSearch(_, _, _)
SqrtSearch(n, lo, hi) ==
    IF lo >= hi THEN lo
    ELSE LET mid == (lo + hi + 1) \div 2
         IN  IF mid * mid <= n THEN SqrtSearch(n, mid, hi)
                               ELSE SqrtSearch(n, lo, mid - 1)

\* Math.sqrt on the fixed-point grid: the integer square root.
ISqrt(n) == SqrtSearch(n, 0, 40000)

BigSub(a, b) ==
    LET lo == a[2] - b[2]
    IN  IF lo < 0 THEN <<a[1] - b[1] - 1, lo + LIMB>>
                  ELSE <<a[1] - b[1], lo>>

BigNeg(a) == BigSub(<<0, 0>>, a)

BigLess(a, b) == a[1] < b[1] \/ (a[1] = b[1] /\ a[2] < b[2])

\* ------------------------------------------------------------------------
\* Fault Distance Estimator (pure)
\* ------------------------------------------------------------------------

NANOS_IN_SECOND == 1000000000

\* Number.MAX_SAFE_INTEGER = 2^53 - 1
MAX_SAFE_INTEGER == <<2 ^ 26 - 1, LIMB - 1>>

\* A timestamp value as the driver hands it over: its JavaScript type, whether
\* it is well formed for that type (a finite number, a string of digits) and
\* the integer it denotes.
toBigIntTimestamp(value) ==
    CASE value.type = "bigint" -> Ok(value.int)
      [] value.type = "number" ->
            IF ~value.wellFormed
            THEN Throw("Error", "Timestamp must be a finite number.")
            ELSE Ok(value.int)
      [] value.type = "string" ->
            IF ~value.wellFormed
            THEN Throw("Error", "Timestamp string is not a valid integer.")
            ELSE Ok(value.int)
      [] OTHER -> Throw("Error", "Timestamp is not a supported type.")

\* Mutant: only a delta above the bound is rejected.
DeltaOutOfRangeAbove(delta) == BigLess(MAX_SAFE_INTEGER, delta)

\* delta > maxSafe || delta < -maxSafe
DeltaOutOfRange(delta) ==
    BigLess(MAX_SAFE_INTEGER, delta) \/ BigLess(delta, BigNeg(MAX_SAFE_INTEGER))

calculateTimeDeltaSeconds(timestampA, timestampB) ==
    LET tsA == toBigIntTimestamp(timestampA)
        tsB == toBigIntTimestamp(timestampB)
    IN  IF ~tsA.ok THEN tsA
        ELSE IF ~tsB.ok THEN tsB
        ELSE LET delta == BigSub(tsA.value, tsB.value)
             IN  IF DeltaOutOfRange(delta)
                 THEN Throw("Error", "Timestamp delta exceeds IEEE float precision limits.")
                 ELSE Ok(delta)

calculatePropagationSpeed(inductanceHKm, capacitanceFKm) ==
    IF ~IsFinite(inductanceHKm) \/ inductanceHKm.val <= 0
    THEN Throw("Error", "Inductance per km must be a positive finite number.")
    ELSE IF ~IsFinite(capacitanceFKm) \/ capacitanceFKm.val <= 0
    THEN Throw("Error", "Capacitance per km must be a positive finite number.")
    ELSE LET product == inductanceHKm.val * capacitanceFKm.val
         IN  IF product <= 0
             THEN Throw("Error", "Invalid LC product computed for propagation velocity.")
             ELSE LET propagationSpeed == ISqrt(NANOS_IN_SECOND \div product)
                  IN  IF propagationSpeed <= 0
                      THEN Throw("Error", "Propagation speed calculation produced an invalid value.")
                      ELSE Ok(propagationSpeed)

\* propagationSpeed * timeDeltaSeconds in millimetres (m/us * ns = mm).
Travel(propagationSpeed, timeDelta) ==
    LET neg == timeDelta[1] < 0
        mag == IF neg THEN BigNeg(timeDelta) ELSE timeDelta
        big == \/ mag[1] >= MAX_VALUE \div LIMB
               \/ mag[1] * LIMB + mag[2] > (MAX_VALUE - 1) \div propagationSpeed
        t   == IF big THEN PositiveInfinity
               ELSE Fl(propagationSpeed * (mag[1] * LIMB + mag[2]))
    IN  IF neg THEN FNeg(t) ELSE t

\* <<q, r>> with k * a = q * m + r and 0 <= r < m, for the k of the operands.
Wrap(p, m) == IF p[2] >= m THEN <<p[1] + 1, p[2] - m>> ELSE p

PlusMod(p, q, m) ==
    IF p[2] >= m - q[2] THEN <<p[1] + q[1] + 1, p[2] - (m - q[2])>>
    ELSE <<p[1] + q[1], p[2] + q[2]>>

\* 100 * a / m for 0 <= a <= m, as quotient and remainder.
Hundredths(a, m) ==
    LET x1 == Wrap(<<0, a>>, m)
        x2 == PlusMod(x1, x1, m)
        x4 == PlusMod(x2, x2, m)
        x8 == PlusMod(x4, x4, m)
        x16 == PlusMod(x8, x8, m)
        x32 == PlusMod(x16, x16, m)
        x64 == PlusMod(x32, x32, m)
    IN  PlusMod(PlusMod(x64, x32, m), x4, m)

\* Number(Math.max(0.4, 1 - excess / lengthMeters).toFixed(2)) in hundredths.
Confidence(excess, lengthMeters) ==
    IF excess.kind # "finite" \/ excess.val > lengthMeters.val THEN 40
    ELSE LET h == Hundredths(lengthMeters.val - excess.val, lengthMeters.val)
         IN  IF h[1] < 40 THEN 40
             ELSE IF h[2] >= lengthMeters.val - h[2] THEN h[1] + 1 ELSE h[1]

\* Mutant: the upper end of the line is not checked.
ClampDistanceAtZeroOnly(rawDistance, lengthMeters) ==
    IF FLess(rawDistance, Finite(0))
    THEN [clampedDistance |-> Finite(0), clamped |-> TRUE]
    ELSE [clampedDistance |-> rawDistance, clamped |-> FALSE]

\* if (rawDistance < 0) ... else if (rawDistance > lengthMeters) ...
ClampDistance(rawDistance, lengthMeters) ==
    IF FLess(rawDistance, Finite(0))
    THEN [clampedDistance |-> Finite(0), clamped |-> TRUE]
    ELSE IF FLess(lengthMeters, rawDistance)
    THEN [clampedDistance |-> lengthMeters, clamped |-> TRUE]
    ELSE [clampedDistance |-> rawDistance, clamped |-> FALSE]

calculateFaultDistance(lengthKm, propagationSpeed, timeDeltaSeconds) ==
    IF ~IsFinite(lengthKm) \/ lengthKm.val <= 0
    THEN Throw("Error", "Line length must be a positive value in kilometres.")
    ELSE IF propagationSpeed <= 0
    THEN Throw("Error", "Propagation speed must be positive.")
    ELSE
    LET \* lengthKm * 1000, in millimetres and in half millimetres
        lengthMillis == Fl(lengthKm.val * 1000000)
        lengthMeters == FTwice(lengthMillis)
        \* 0.5 * (lengthMeters + propagationSpeed * timeDeltaSeconds)
        rawDistance == FAdd(lengthMillis, Travel(propagationSpeed, timeDeltaSeconds))
        clamp == ClampDistance(rawDistance, lengthMeters)
        clamped == clamp.clamped
        clampedDistance == clamp.clampedDistance
        excess == FAbs(FSub(rawDistance, clampedDistance))
        confidence == IF clamped THEN Confidence(excess, lengthMeters) ELSE 100
    IN  Ok([distanceFromStartMeters |-> clampedDistance,
            distanceFromEndMeters |-> FSub(lengthMeters, clampedDistance),
            lineLengthMeters |-> lengthMeters,
            propagationSpeed |-> propagationSpeed,
            timeDeltaSeconds |-> timeDeltaSeconds,
            clamped |-> clamped,
            confidence |-> confidence])

\* ------------------------------------------------------------------------
\* The store: tables, initial rows
\* ------------------------------------------------------------------------

\* How many requests (FLISR triggers, telemetry ingestions, mark-read and
\* relay-control requests) the server receives in one behaviour.
MaxRequests == 2

Zones == {"Z1", "Z2", "Z3", "Z4"}

ConnIds == {"C1", "C2", "C3"}

Runs == {"r1", "r2"}

\* The fault event ids a caller passes to the trigger surface.
EventArgs == 1 .. 6

Null == "null"

NoContext == [eventId |-> 0]

NoDistance == [lineLengthMeters |-> 0]

NoError == [name |-> "none", message |-> ""]

StringTimestamp(hi, lo) == [type |-> "string", wellFormed |-> TRUE, int |-> <<hi, lo>>]

ConnectionRow(from, to, status, len, ind, cap) ==
    [from_zone_agent_id |-> from, to_zone_agent_id |-> to,
     connection_status |-> status, is_faulty |-> FALSE,
     length_km |-> len, inductance_h_km |-> ind, capacitance_f_km |-> cap]

EventRow(zone, type, description, resolved) ==
    [zone_agent_id |-> zone, event_type |-> type,
     description |-> description, resolved |-> resolved]

\* The third segment as it may have been provisioned: a feeder segment
\* without inductance, or a second normally-open tie at zone Z2 whose length
\* was never entered.
LineScenarios ==
    { [from |-> "Z3", to |-> "Z4", status |-> "ACTIVE",
       len |-> Finite(10), ind |-> Finite(0), cap |-> Finite(9)],
      [from |-> "Z2", to |-> "Z4", status |-> "INACTIVE",
       len |-> NotANumber, ind |-> Finite(1200), cap |-> Finite(9)] }

VARIABLES
    ZoneAgent,        \* table "ZoneAgent": zone id -> row
    GridConnection,   \* table "GridConnection": connection id -> row
    EventLog,         \* table "EventLog": event_id -> row (committed rows)
    eventSeq,         \* last value handed out by the event_id SERIAL sequence
    FaultWaveform,    \* table "FaultWaveform": set of rows
    Relay,            \* table "Relay": zone id -> status of its relay 1
    sensorReadings,   \* table "SensorReading": number of rows
    published,        \* calls of publishSwitchCommand / publishRelayCommand
                      \* in order, each with whether it rejected
    requests,         \* number of requests received so far
    pc,               \* per run: the statement runFlisrWorkflow is at
    faultEventId,     \* per run: the argument of the invocation
    resolvedAtBegin,  \* per run: the fault event was stored as resolved when
                      \* persistOutcome issued BEGIN
    retry,            \* per run: the caller had received a failure response
                      \* for the same event id when it sent the request
    faultContext,     \* per run: result of fetchFaultContext
    distanceResult,   \* per run: result of calculateFaultDistance
    network,          \* per run: result of fetchNetworkState
    plan,             \* per run: result of deriveRestorationPlan
    actionIndex,      \* per run: position of persistOutcome's loop over plan.actions
    tx,               \* per run: statements executed in the open transaction
    thrown,           \* per run: the error the invocation rejected with
    mqttListener,     \* telemetry-listener.ts: the client the module variable
                      \* refers to, 0 for null
    isListening,      \* telemetry-listener.ts: the module's flag
    clients           \* the MQTT clients mqtt.connect has created: id -> state

storeVars == <<ZoneAgent, GridConnection, EventLog, eventSeq, FaultWaveform, Relay,
               sensorReadings>>

runVars == <<pc, faultEventId, retry, resolvedAtBegin, faultContext, distanceResult, network, plan,
             actionIndex, tx, thrown>>

vars == <<ZoneAgent, GridConnection, EventLog, eventSeq, FaultWaveform, Relay,
          sensorReadings, published, requests, pc, faultEventId, retry, resolvedAtBegin, faultContext,
          distanceResult, network, plan, actionIndex, tx, thrown,
          mqttListener, isListening, clients>>

listenerVars == <<mqttListener, isListening, clients>>

NoPlan == [actions |-> <<>>, rationale |-> <<>>]

NoNetwork == [zones |-> <<>>, connections |-> <<>>]

\* Table "GridConnection" before the first request.
InitialConnections(s) ==
    [c \in ConnIds |->
        CASE c = "C1" -> ConnectionRow("Z1", "Z2", "ACTIVE",
                            Finite(10), Finite(1200), Finite(9))
          [] c = "C2" -> ConnectionRow("Z2", "Z3", "INACTIVE",
                            Finite(10), Finite(1200), Finite(9))
          [] c = "C3" -> ConnectionRow(s.from, s.to, s.status,
                            s.len, s.ind, s.cap)]

\* Table "EventLog" before the first request.
InitialEventLog ==
    [e \in 1 .. 5 |->
        CASE e = 1 -> EventRow("Z1", "FAULT", [text |-> "overcurrent"], FALSE)
          [] e = 2 -> EventRow("Z3", "FAULT", [text |-> "overcurrent"], FALSE)
          [] e = 3 -> EventRow(Null, "FAULT", [text |-> "overcurrent"], FALSE)
          [] e = 4 -> EventRow("Z1", "STATUS_UPDATE",
                               [device |-> "Z1", status |-> "NORMAL"], TRUE)
          [] e = 5 -> EventRow(Null, "FAULT", [text |-> "overcurrent"], FALSE)]

\* Table "FaultWaveform" before the first request.
InitialWaveforms ==
    { [event_id |-> 1, grid_connection_id |-> "C1",
       timestamp_a |-> StringTimestamp(7, 1000000),
       timestamp_b |-> StringTimestamp(7, 999000)],
      [event_id |-> 2, grid_connection_id |-> "C2",
       timestamp_a |-> StringTimestamp(7, 40000),
       timestamp_b |-> StringTimestamp(7, 0)],
      [event_id |-> 3, grid_connection_id |-> "C3",
       timestamp_a |-> StringTimestamp(7, 1000000),
       timestamp_b |-> StringTimestamp(7, 999000)],
      [event_id |-> 4, grid_connection_id |-> "C1",
       timestamp_a |-> StringTimestamp(7, 1000000),
       timestamp_b |-> StringTimestamp(7, 999000)],
      [event_id |-> 5, grid_connection_id |-> "C1",
       timestamp_a |-> StringTimestamp(2 ^ 26 + 7, 0),
       timestamp_b |-> StringTimestamp(7, 0)] }

\* Table "ZoneAgent" before the first request; Z4 is the tie zone.
InitialZones ==
    [z \in Zones |->
        [feeder_number |-> IF z = "Z4" THEN 99 ELSE 1,
         location_description |-> IF z = "Z3" THEN Null ELSE z,
         status |-> IF z \in {"Z1", "Z3"} THEN "FAULT" ELSE "NORMAL"]]

\* The committed store with the given connections and waveforms.
StoreIs(connections, waveforms) ==
    /\ ZoneAgent = InitialZones
    /\ GridConnection = connections
    /\ FaultWaveform = waveforms
    /\ EventLog = InitialEventLog
    /\ eventSeq = Cardinality(DOMAIN InitialEventLog)
    /\ Relay = [z \in {"Z1", "Z3"} |-> "CLOSED"]
    /\ sensorReadings = 0

\* The committed store before the first request.
InitStore(s) == StoreIs(InitialConnections(s), InitialWaveforms)

\* startMqttTelemetryListener has not been called: no client, not listening.
NoListener ==
    /\ mqttListener = 0
    /\ isListening = FALSE
    /\ clients = <<>>

\* No invocation has been received.
InitRuns ==
    /\ pc = [r \in Runs |-> "idle"]
    /\ faultEventId = [r \in Runs |-> 0]
    /\ retry = [r \in Runs |-> FALSE]
    /\ resolvedAtBegin = [r \in Runs |-> FALSE]
    /\ faultContext = [r \in Runs |-> NoContext]
    /\ distanceResult = [r \in Runs |-> NoDistance]
    /\ network = [r \in Runs |-> NoNetwork]
    /\ plan = [r \in Runs |-> NoPlan]
    /\ actionIndex = [r \in Runs |-> 0]
    /\ tx = [r \in Runs |-> <<>>]
    /\ thrown = [r \in Runs |-> NoError]

Init ==
    /\ \E s \in LineScenarios : InitStore(s)
    /\ published = <<>>
    /\ requests = 0
    /\ InitRuns
    /\ NoListener

\* ------------------------------------------------------------------------
\* Restoration Planner (pure)
\* ------------------------------------------------------------------------

\* Mutant: the faulted connection itself is scanned too.
IsTieCandidateWithFaulted(conn, ctx) ==
    /\ conn.connection_status = "INACTIVE"
    /\ conn.is_faulty = FALSE
    /\ \/ conn.from_zone_agent_id \in {ctx.fromZoneId, ctx.toZoneId}
       \/ conn.to_zone_agent_id \in {ctx.fromZoneId, ctx.toZoneId}

\* Mutant: any healthy open switch is taken for a tie.
IsTieCandidateAnywhere(conn, ctx) ==
    /\ conn.grid_connection_id # ctx.gridConnectionId
    /\ conn.connection_status = "INACTIVE"
    /\ conn.is_faulty = FALSE

\* The tie-candidate predicate of the planner.
IsTieCandidate(conn, ctx) ==
    /\ conn.grid_connection_id # ctx.gridConnectionId
    /\ conn.connection_status = "INACTIVE"
    /\ conn.is_faulty = FALSE
    /\ \/ conn.from_zone_agent_id \in {ctx.fromZoneId, ctx.toZoneId}
       \/ conn.to_zone_agent_id \in {ctx.fromZoneId, ctx.toZoneId}

RECURSIVE TieCandidates(_, _)
TieCandidates(connections, ctx) ==
    IF connections = <<>> THEN <<>>
    ELSE (IF IsTieCandidate(Head(connections), ctx) THEN <<Head(connections)>> ELSE <<>>)
         \o TieCandidates(Tail(connections), ctx)

ZoneName(zones, id) ==
    IF id \in DOMAIN zones THEN zones[id].location_description ELSE Null

\* Mutant: the first action only notifies.
IsolateActionNotifies(ctx) ==
    [action |-> "NOTIFY",
     target_connection_id |-> ctx.gridConnectionId,
     reason |-> "isolate the faulted segment",
     metadata |-> [faultEventId |-> ctx.eventId, fromZoneId |-> ctx.fromZoneId,
                  toZoneId |-> ctx.toZoneId]]

IsolateAction(ctx) ==
    [action |-> "OPEN_SWITCH",
     target_connection_id |-> ctx.gridConnectionId,
     reason |-> "isolate the faulted segment",
     metadata |-> [faultEventId |-> ctx.eventId, fromZoneId |-> ctx.fromZoneId,
                  toZoneId |-> ctx.toZoneId]]

BackfeedAction(tie, zones) ==
    [action |-> "CLOSE_SWITCH",
     target_connection_id |-> tie.grid_connection_id,
     reason |-> "backfeed through alternate healthy path",
     metadata |-> [fromZoneName |-> ZoneName(zones, tie.from_zone_agent_id),
                   toZoneName |-> ZoneName(zones, tie.to_zone_agent_id)]]

\* Mutant: the escalation closes the faulted connection again.
EscalateActionRecloses(ctx) ==
    [action |-> "CLOSE_SWITCH",
     target_connection_id |-> ctx.gridConnectionId,
     reason |-> "no automated restoration path",
     metadata |-> [escalation |-> "dispatch_crew"]]

EscalateAction(ctx) ==
    [action |-> "NOTIFY",
     target_connection_id |-> ctx.gridConnectionId,
     reason |-> "no automated restoration path",
     metadata |-> [escalation |-> "dispatch_crew"]]

deriveRestorationPlan(ctx, zones, connections) ==
    LET candidates == TieCandidates(connections, ctx)
    IN  IF candidates # <<>>
        THEN LET tie == Head(candidates)
             IN  [actions |-> <<IsolateAction(ctx), BackfeedAction(tie, zones)>>,
                  rationale |-> <<[fault |-> ctx.gridConnectionId],
                                  [tie |-> tie.grid_connection_id,
                                   status |-> tie.connection_status]>>]
        ELSE [actions |-> <<IsolateAction(ctx), EscalateAction(ctx)>>,
              rationale |-> <<[fault |-> ctx.gridConnectionId],
                              [tie |-> Null, status |-> Null]>>]

\* ------------------------------------------------------------------------
\* Store access of the workflow
\* ------------------------------------------------------------------------

\* The rows of fetchFaultContext's query for one event id.
FaultContextRows(id) ==
    { fw \in FaultWaveform :
        /\ fw.event_id = id
        /\ id \in DOMAIN EventLog
        /\ EventLog[id].event_type = "FAULT"
        /\ fw.grid_connection_id \in DOMAIN GridConnection }

FaultContextOf(id, fw) ==
    LET gc == GridConnection[fw.grid_connection_id]
    IN  [eventId |-> id,
         eventDescription |-> EventLog[id].description,
         gridConnectionId |-> fw.grid_connection_id,
         fromZoneId |-> gc.from_zone_agent_id,
         fromZoneName |-> ZoneName(ZoneAgent, gc.from_zone_agent_id),
         toZoneId |-> gc.to_zone_agent_id,
         toZoneName |-> ZoneName(ZoneAgent, gc.to_zone_agent_id),
         lengthKm |-> gc.length_km,
         inductanceHKm |-> gc.inductance_h_km,
         capacitanceFKm |-> gc.capacitance_f_km,
         timestampA |-> fw.timestamp_a,
         timestampB |-> fw.timestamp_b]

\* The orders in which SELECT ... FROM "GridConnection" (no ORDER BY) may
\* return the rows.
ReadOrders ==
    { o \in [1 .. Cardinality(DOMAIN GridConnection) -> DOMAIN GridConnection] :
        \A i, j \in DOMAIN o : i # j => o[i] # o[j] }

ConnectionState(id) ==
    [grid_connection_id |-> id] @@ GridConnection[id]

\* ------------------------------------------------------------------------
\* Transactions: a transaction is the sequence of statements executed since
\* BEGIN; COMMIT applies them to the committed tables in order, ROLLBACK
\* drops them.  A row updated in an open transaction is locked for the
\* other writers until that transaction ends.
\* ------------------------------------------------------------------------

\* Mutant: the UPDATE never raises is_faulty.
UpdateConnectionNotFaulty(id, status, faulty) ==
    [stmt |-> "UPDATE GridConnection", id |-> id,
     connection_status |-> status, is_faulty |-> FALSE]

UpdateConnection(id, status, faulty) ==
    [stmt |-> "UPDATE GridConnection", id |-> id,
     connection_status |-> status, is_faulty |-> faulty]

InsertEvent(id, type, description) ==
    [stmt |-> "INSERT EventLog", id |-> id,
     row |-> EventRow(Null, type, description, TRUE)]

ResolveEvent(id) == [stmt |-> "UPDATE EventLog", id |-> id]


\* Mutant: the UPDATE sets connection_status and leaves is_faulty.
ApplyConnectionsStatusOnly(conns, s) ==
    IF s.stmt = "UPDATE GridConnection" /\ s.id \in DOMAIN conns
    THEN [conns EXCEPT ![s.id].connection_status = s.connection_status]
    ELSE conns

ApplyConnections(conns, s) ==
    IF s.stmt = "UPDATE GridConnection" /\ s.id \in DOMAIN conns
    THEN [conns EXCEPT ![s.id].connection_status = s.connection_status,
                       ![s.id].is_faulty = s.is_faulty]
    ELSE conns

ApplyEvents(log, s) ==
    IF s.stmt = "INSERT EventLog" THEN (s.id :> s.row) @@ log
    ELSE IF s.stmt = "UPDATE EventLog" /\ s.id \in DOMAIN log
    THEN [log EXCEPT ![s.id].resolved = TRUE]
    ELSE log

RECURSIVE CommitConnections(_, _)
CommitConnections(conns, stmts) ==
    IF stmts = <<>> THEN conns
    ELSE CommitConnections(ApplyConnections(conns, Head(stmts)), Tail(stmts))


\* Mutant: the log entries are written outside the transaction and lost.
CommitEventsWithoutInserts(log, stmts) ==
    [id \in DOMAIN log |->
        IF \E i \in DOMAIN stmts : stmts[i].stmt = "UPDATE EventLog" /\ stmts[i].id = id
        THEN [log[id] EXCEPT !.resolved = TRUE]
        ELSE log[id]]

RECURSIVE CommitEvents(_, _)
CommitEvents(log, stmts) ==
    IF stmts = <<>> THEN log
    ELSE CommitEvents(ApplyEvents(log, Head(stmts)), Tail(stmts))

Stmts(r) == { tx[r][i] : i \in DOMAIN tx[r] }

ConnectionLocked(r, id) ==
    \E o \in Runs \ {r} : \E s \in Stmts(o) :
        s.stmt = "UPDATE GridConnection" /\ s.id = id

EventLocked(r, id) ==
    \E o \in Runs \ {r} : \E s \in Stmts(o) :
        s.stmt = "UPDATE EventLog" /\ s.id = id

\* ------------------------------------------------------------------------
\* FLISR workflow orchestrator: runFlisrWorkflow, one action per await
\* ------------------------------------------------------------------------

Goto(r, label) == pc' = [pc EXCEPT ![r] = label]

\* The invocation rejects with `error` without running a later statement.
Reject(r, error) ==
    /\ thrown' = [thrown EXCEPT ![r] = error]
    /\ Goto(r, "failed")

\* POST /api/flisr with a valid body: runFlisrWorkflow(client, id).
Invoke(r, id) ==
    /\ pc[r] = "idle"
    /\ requests < MaxRequests
    /\ requests' = requests + 1
    /\ faultEventId' = [faultEventId EXCEPT ![r] = id]
    /\ retry' = [retry EXCEPT ![r] =
                    \E o \in Runs : pc[o] = "failed" /\ faultEventId[o] = id]
    /\ Goto(r, "load_context")
    /\ UNCHANGED <<storeVars, published, resolvedAtBegin, listenerVars, faultContext, distanceResult,
                   network, plan, actionIndex, tx, thrown>>

\* The bodies a caller sends to POST /api/flisr: text that is not JSON, an
\* object without faultEventId, one whose faultEventId is a string, a
\* fraction, zero or negative, and the well-formed ones.
RequestBodies ==
    { [json |-> FALSE, type |-> "undefined", integral |-> FALSE, value |-> 0],
      [json |-> TRUE, type |-> "undefined", integral |-> FALSE, value |-> 0],
      [json |-> TRUE, type |-> "string", integral |-> TRUE, value |-> 1],
      [json |-> TRUE, type |-> "number", integral |-> FALSE, value |-> 1],
      [json |-> TRUE, type |-> "number", integral |-> TRUE, value |-> 0],
      [json |-> TRUE, type |-> "number", integral |-> TRUE, value |-> -1] }
    \cup { [json |-> TRUE, type |-> "number", integral |-> TRUE, value |-> id] :
             id \in EventArgs }

\* z.object({ faultEventId: z.number().int().positive() }).safeParse(body).success
flisrTriggerSchema(body) ==
    body.type = "number" /\ body.integral /\ body.value > 0

\* POST /api/flisr with a body that does not reach runFlisrWorkflow:
\* request.json() throws inside the try block, or the schema answers 400.
PostRejects(r, body) ==
    /\ pc[r] = "idle"
    /\ requests < MaxRequests
    /\ requests' = requests + 1
    /\ IF ~body.json
       THEN Reject(r, [name |-> "SyntaxError", message |-> "Unexpected end of JSON input"])
       ELSE Goto(r, "bad_request") /\ UNCHANGED thrown
    /\ UNCHANGED <<storeVars, published, faultEventId, retry, resolvedAtBegin, listenerVars, faultContext, distanceResult,
                   network, plan, actionIndex, tx>>

\* POST /api/flisr.
Post(r, body) ==
    IF body.json /\ flisrTriggerSchema(body)
    THEN Invoke(r, body.value)
    ELSE PostRejects(r, body)

\* The status of the response of run r's request, 0 while there is none:
\* 200 after the workflow returned, 400 from the schema, and the catch
\* block's 404 for a NotFoundError, 500 for any other error.
ResponseStatus(r) ==
    CASE pc[r] = "done" -> 200
      [] pc[r] = "bad_request" -> 400
      [] pc[r] = "failed" -> (IF thrown[r].name = "NotFoundError" THEN 404 ELSE 500)
      [] OTHER -> 0

\* fetchFaultContext: the joined rows, or NotFoundError when there is none.
LoadContext(r) ==
    /\ pc[r] = "load_context"
    /\ LET rows == FaultContextRows(faultEventId[r])
       IN  IF rows = {}
           THEN /\ Reject(r, [name |-> "NotFoundError",
                              message |-> "Fault event not found or has no associated waveform."])
                /\ UNCHANGED faultContext
           ELSE /\ \E fw \in rows :
                      faultContext' = [faultContext EXCEPT
                                          ![r] = FaultContextOf(faultEventId[r], fw)]
                /\ Goto(r, "compute_distance")
                /\ UNCHANGED thrown
    /\ UNCHANGED <<storeVars, published, requests, faultEventId, retry, resolvedAtBegin, listenerVars, distanceResult,
                   network, plan, actionIndex, tx>>

\* The three estimator calls of runFlisrWorkflow, in the order of the code.
Estimate(ctx) ==
    LET timeDeltaSeconds == calculateTimeDeltaSeconds(ctx.timestampA, ctx.timestampB)
        propagationSpeed == calculatePropagationSpeed(ctx.inductanceHKm, ctx.capacitanceFKm)
    IN  IF ~timeDeltaSeconds.ok THEN timeDeltaSeconds
        ELSE IF ~propagationSpeed.ok THEN propagationSpeed
        ELSE calculateFaultDistance(ctx.lengthKm, propagationSpeed.value,
                                    timeDeltaSeconds.value)


\* Mutant: the estimator's error is wrapped in a generic one.
AfterEstimatorErrorWraps(r, error) ==
    Reject(r, [name |-> "TransactionError", message |-> "FLISR execution failed"])

\* Where the workflow continues after an estimator error: nowhere, the error
\* is not caught.
AfterEstimatorError(r, error) == Reject(r, error)

ComputeDistance(r) ==
    /\ pc[r] = "compute_distance"
    /\ LET result == Estimate(faultContext[r])
       IN  IF result.ok
           THEN /\ distanceResult' = [distanceResult EXCEPT ![r] = result.value]
                /\ Goto(r, "load_topology")
                /\ UNCHANGED thrown
           ELSE /\ AfterEstimatorError(r, result.error)
                /\ UNCHANGED distanceResult
    /\ UNCHANGED <<storeVars, published, requests, faultEventId, retry, resolvedAtBegin, listenerVars, faultContext,
                   network, plan, actionIndex, tx>>

\* fetchNetworkState: both tables as they are committed now.
LoadTopology(r) ==
    /\ pc[r] = "load_topology"
    /\ \E o \in ReadOrders :
          network' = [network EXCEPT ![r] =
                         [zones |-> ZoneAgent,
                          connections |-> [i \in DOMAIN o |-> ConnectionState(o[i])]]]
    /\ Goto(r, "plan")
    /\ UNCHANGED <<storeVars, published, requests, faultEventId, retry, resolvedAtBegin, listenerVars, faultContext,
                   distanceResult, plan, actionIndex, tx, thrown>>

\* deriveRestorationPlan on the snapshot; zones and connections are not read
\* again after it returns.
Plan(r) ==
    /\ pc[r] = "plan"
    /\ plan' = [plan EXCEPT ![r] =
                   deriveRestorationPlan(faultContext[r], network[r].zones,
                                         network[r].connections)]
    /\ network' = [network EXCEPT ![r] = NoNetwork]
    /\ Goto(r, "begin")
    /\ UNCHANGED <<storeVars, published, requests, faultEventId, retry, resolvedAtBegin, listenerVars, faultContext,
                   distanceResult, actionIndex, tx, thrown>>

\* A read of the workflow, or BEGIN, is rejected by the store: nothing is open
\* yet, the error leaves runFlisrWorkflow as it is.
QueryFails(r) ==
    /\ pc[r] \in {"load_context", "load_topology", "begin"}
    /\ Reject(r, [name |-> "Error", message |-> "query failed"])
    /\ UNCHANGED <<storeVars, published, requests, faultEventId, retry, resolvedAtBegin, listenerVars, faultContext,
                   distanceResult, network, plan, actionIndex, tx>>

Begin(r) ==
    /\ pc[r] = "begin"
    /\ resolvedAtBegin' = [resolvedAtBegin EXCEPT ![r] =
                              /\ faultContext[r].eventId \in DOMAIN EventLog
                              /\ EventLog[faultContext[r].eventId].resolved]
    /\ Goto(r, "cut_update")
    /\ UNCHANGED <<storeVars, published, requests, faultEventId, retry, listenerVars, faultContext,
                   distanceResult, network, plan, actionIndex, tx, thrown>>

Execute(r, s) == tx' = [tx EXCEPT ![r] = Append(@, s)]


\* Mutant: the loop ends after the first plan action.
LoopLabelStopsAfterFirst(r, i) ==
    IF i > 1 THEN "analysis_insert"
    ELSE IF plan[r].actions[i].action = "CLOSE_SWITCH" THEN "close_update"
    ELSE "log_insert"

\* Where the loop over plan.actions stands at index i: the CLOSE_SWITCH
\* branch, the INSERT of the action's log entry, or past the loop.
\* Mutant: every action of the plan is switched, whatever its kind.
LoopLabelSwitchesEveryAction(r, i) ==
    IF i > Len(plan[r].actions) THEN "analysis_insert" ELSE "close_update"

LoopLabel(r, i) ==
    IF i > Len(plan[r].actions) THEN "analysis_insert"
    ELSE IF plan[r].actions[i].action = "CLOSE_SWITCH" THEN "close_update"
    ELSE "log_insert"


\* Mutant: the faulted connection is not marked before the loop.
CutUpdateSkipped(r) ==
    /\ pc[r] = "cut_update"
    /\ Goto(r, "open_publish")
    /\ UNCHANGED <<storeVars, published, requests, faultEventId, retry, resolvedAtBegin, listenerVars, faultContext,
                   distanceResult, network, plan, actionIndex, tx, thrown>>

\* Mark the primary faulted connection as isolated.
CutUpdate(r) ==
    /\ pc[r] = "cut_update"
    /\ ~ConnectionLocked(r, faultContext[r].gridConnectionId)
    /\ Execute(r, UpdateConnection(faultContext[r].gridConnectionId, "CUT", TRUE))
    /\ Goto(r, "open_publish")
    /\ UNCHANGED <<storeVars, published, requests, faultEventId, retry, resolvedAtBegin, listenerVars, faultContext,
                   distanceResult, network, plan, actionIndex, thrown>>

SwitchCommand(r, id, command, reason, error) ==
    [topic |-> "switch", run |-> r, gridConnectionId |-> id, command |-> command,
     source |-> "FLISR", reason |-> reason, error |-> error]

\* The message the run is about to hand to publishSwitchCommand.
PendingCommand(r, error) ==
    IF pc[r] = "open_publish"
    THEN SwitchCommand(r, faultContext[r].gridConnectionId, "OPEN",
                       "Isolate detected faulted feeder segment", error)
    ELSE LET action == plan[r].actions[actionIndex[r]]
         IN  SwitchCommand(r, action.target_connection_id, "CLOSE", action.reason, error)

\* publishSwitchCommand resolved: the broker took the message.
OpenPublish(r) ==
    /\ pc[r] = "open_publish"
    /\ published' = Append(published, PendingCommand(r, FALSE))
    /\ actionIndex' = [actionIndex EXCEPT ![r] = 1]
    /\ Goto(r, LoopLabel(r, 1))
    /\ UNCHANGED <<storeVars, requests, faultEventId, retry, resolvedAtBegin, listenerVars, faultContext, distanceResult,
                   network, plan, tx, thrown>>

CloseUpdate(r) ==
    /\ pc[r] = "close_update"
    /\ LET action == plan[r].actions[actionIndex[r]]
       IN  /\ ~ConnectionLocked(r, action.target_connection_id)
           /\ Execute(r, UpdateConnection(action.target_connection_id, "ACTIVE", FALSE))
    /\ Goto(r, "close_publish")
    /\ UNCHANGED <<storeVars, published, requests, faultEventId, retry, resolvedAtBegin, listenerVars, faultContext,
                   distanceResult, network, plan, actionIndex, thrown>>

ClosePublish(r) ==
    /\ pc[r] = "close_publish"
    /\ published' = Append(published, PendingCommand(r, FALSE))
    /\ Goto(r, "log_insert")
    /\ UNCHANGED <<storeVars, requests, faultEventId, retry, resolvedAtBegin, listenerVars, faultContext, distanceResult,
                   network, plan, actionIndex, tx, thrown>>

ActionDescription(action) ==
    [action |-> action.action, target |-> action.target_connection_id,
     reason |-> action.reason, metadata |-> action.metadata]

\* INSERT of one SERVICE_RESTORATION entry; event_id comes from the sequence,
\* whose values are not given back on rollback.
LogInsert(r) ==
    /\ pc[r] = "log_insert"
    /\ eventSeq' = eventSeq + 1
    /\ Execute(r, InsertEvent(eventSeq + 1, "SERVICE_RESTORATION",
                              ActionDescription(plan[r].actions[actionIndex[r]])))
    /\ actionIndex' = [actionIndex EXCEPT ![r] = @ + 1]
    /\ Goto(r, LoopLabel(r, actionIndex[r] + 1))
    /\ UNCHANGED <<ZoneAgent, GridConnection, EventLog, FaultWaveform, Relay,
                   sensorReadings, published, requests, faultEventId, retry, resolvedAtBegin, listenerVars, faultContext, distanceResult,
                   network, plan, thrown>>

\* x.toFixed(1): the decimetres of a finite distance, else "NaN" / "Infinity".
ToFixed1(x) ==
    IF x.kind = "finite" THEN [decimetres |-> (x.val + 100) \div 200]
    ELSE [text |-> x.kind]

\* distanceFromStartMeters.toFixed(1) and the source-side zone.
AnalysisSummary(ctx, distance) ==
    [located |-> ToFixed1(distance.distanceFromStartMeters),
     source |-> IF ctx.fromZoneName # Null THEN ctx.fromZoneName ELSE ctx.fromZoneId]

AnalysisInsert(r) ==
    /\ pc[r] = "analysis_insert"
    /\ eventSeq' = eventSeq + 1
    /\ Execute(r, InsertEvent(eventSeq + 1, "FAULT_ANALYSIS",
                              AnalysisSummary(faultContext[r], distanceResult[r])))
    /\ Goto(r, "resolve")
    /\ UNCHANGED <<ZoneAgent, GridConnection, EventLog, FaultWaveform, Relay,
                   sensorReadings, published, requests, faultEventId, retry, resolvedAtBegin, listenerVars, faultContext, distanceResult,
                   network, plan, actionIndex, thrown>>

Resolve(r) ==
    /\ pc[r] = "resolve"
    /\ ~EventLocked(r, faultContext[r].eventId)
    /\ Execute(r, ResolveEvent(faultContext[r].eventId))
    /\ Goto(r, "commit")
    /\ UNCHANGED <<storeVars, published, requests, faultEventId, retry, resolvedAtBegin, listenerVars, faultContext,
                   distanceResult, network, plan, actionIndex, thrown>>

\* COMMIT: the statements of the transaction become the committed rows.
Commit(r) ==
    /\ pc[r] = "commit"
    /\ GridConnection' = CommitConnections(GridConnection, tx[r])
    /\ EventLog' = CommitEvents(EventLog, tx[r])
    /\ tx' = [tx EXCEPT ![r] = <<>>]
    /\ Goto(r, "done")
    /\ UNCHANGED <<ZoneAgent, eventSeq, FaultWaveform, Relay, sensorReadings, published, requests,
                   faultEventId, retry, resolvedAtBegin, listenerVars, faultContext, distanceResult, network, plan,
                   actionIndex, thrown>>

StatementLabels == {"cut_update", "close_update", "log_insert", "analysis_insert",
                    "resolve", "commit"}

PublishLabels == {"open_publish", "close_publish"}

\* What the catch block of persistOutcome does with an error of the try block.
Catch(r, error) ==
    /\ thrown' = [thrown EXCEPT ![r] = error]
    /\ Goto(r, "rollback")

\* A statement of the transaction is rejected (constraint, deadlock, lost
\* connection): control goes to the catch block.
StatementFails(r) ==
    /\ pc[r] \in StatementLabels
    /\ Catch(r, [name |-> "Error", message |-> "query failed"])
    /\ UNCHANGED <<storeVars, published, requests, faultEventId, retry, resolvedAtBegin, listenerVars, faultContext,
                   distanceResult, network, plan, actionIndex, tx>>


\* Mutant: a rejected dispatch is logged and the persist goes on.
PublishFailsBestEffort(r) ==
    /\ pc[r] \in PublishLabels
    /\ published' = Append(published, PendingCommand(r, TRUE))
    /\ IF pc[r] = "open_publish"
       THEN /\ actionIndex' = [actionIndex EXCEPT ![r] = 1]
            /\ Goto(r, LoopLabel(r, 1))
       ELSE /\ UNCHANGED actionIndex
            /\ Goto(r, "log_insert")
    /\ UNCHANGED <<storeVars, requests, faultEventId, retry, resolvedAtBegin, listenerVars, faultContext, distanceResult,
                   network, plan, tx, thrown>>

\* publishSwitchCommand rejected: client.publish called back with an error.
PublishFails(r) ==
    /\ pc[r] \in PublishLabels
    /\ published' = Append(published, PendingCommand(r, TRUE))
    /\ Catch(r, [name |-> "Error", message |-> "publish failed"])
    /\ UNCHANGED <<storeVars, requests, faultEventId, retry, resolvedAtBegin, listenerVars, faultContext,
                   distanceResult, network, plan, actionIndex, tx>>


\* Mutant: the catch block ends the transaction with COMMIT.
RollbackKeepsWrites(r) ==
    /\ pc[r] = "rollback"
    /\ GridConnection' = CommitConnections(GridConnection, tx[r])
    /\ EventLog' = CommitEvents(EventLog, tx[r])
    /\ tx' = [tx EXCEPT ![r] = <<>>]
    /\ Goto(r, "failed")
    /\ UNCHANGED <<ZoneAgent, eventSeq, FaultWaveform, Relay, sensorReadings, published,
                   requests, faultEventId, retry, resolvedAtBegin, listenerVars, faultContext, distanceResult, network, plan,
                   actionIndex, thrown>>

\* Mutant: the catch block starts persistOutcome again.
RollbackRetries(r) ==
    /\ pc[r] = "rollback"
    /\ tx' = [tx EXCEPT ![r] = <<>>]
    /\ Goto(r, "begin")
    /\ UNCHANGED <<storeVars, published, requests, faultEventId, retry, resolvedAtBegin, listenerVars, faultContext,
                   distanceResult, network, plan, actionIndex, thrown>>

\* ROLLBACK, then rethrow.
Rollback(r) ==
    /\ pc[r] = "rollback"
    /\ tx' = [tx EXCEPT ![r] = <<>>]
    /\ Goto(r, "failed")
    /\ UNCHANGED <<storeVars, published, requests, faultEventId, retry, resolvedAtBegin, listenerVars, faultContext,
                   distanceResult, network, plan, actionIndex, thrown>>

\* ------------------------------------------------------------------------
\* The other writers of the store
\* ------------------------------------------------------------------------

\* Device and payload of the telemetry requests served.
TelemetryInputs ==
    { [zone |-> "Z1", status |-> "NORMAL", readings |-> 1,
       relays |-> <<[relay |-> 1, state |-> "OFF"]>>],
      [zone |-> "Z1", status |-> "FAULT", readings |-> 0, relays |-> <<>>],
      [zone |-> "Z3", status |-> Null, readings |-> 1, relays |-> <<>>] }

\* Bodies of POST /api/notifications.
MarkReadInputs ==
    { [markAll |-> TRUE, notificationId |-> 0],
      [markAll |-> FALSE, notificationId |-> 1] }

\* Bodies of POST /api/relay/control.
RelayInputs ==
    { [zone |-> "Z1", relayNumber |-> 1, command |-> "OFF"],
      [zone |-> "Z1", relayNumber |-> 1, command |-> "AUTO"],
      [zone |-> "Z2", relayNumber |-> 1, command |-> "CLOSED"] }


\* Mutant: the rows are deleted instead of marked.
MarkResolvedDeletes(log, ids) == [id \in DOMAIN log \ ids |-> log[id]]

\* UPDATE "EventLog" SET resolved = TRUE for the rows `ids`.
MarkResolved(log, ids) ==
    [id \in DOMAIN log |->
        IF id \in ids THEN [log[id] EXCEPT !.resolved = TRUE] ELSE log[id]]

\* INSERT INTO "EventLog" of one row under the next value of the sequence.
AppendEvent(log, id, row) == (id :> row) @@ log

LockedEvents == { id \in DOMAIN EventLog : \E r \in Runs : EventLocked(r, id) }

\* Mutant: the unresolved FAULT events of every zone.
UnresolvedFaultsAnywhere(zone) ==
    { id \in DOMAIN EventLog :
        /\ EventLog[id].event_type = "FAULT"
        /\ EventLog[id].resolved = FALSE }

UnresolvedFaults(zone) ==
    { id \in DOMAIN EventLog :
        /\ EventLog[id].zone_agent_id = zone
        /\ EventLog[id].event_type = "FAULT"
        /\ EventLog[id].resolved = FALSE }

NormalizedState(state) == IF state \in {"ON", "CLOSED"} THEN "CLOSED" ELSE "OPEN"

RECURSIVE UpdateRelays(_, _, _)
UpdateRelays(relay, zone, relays) ==
    IF relays = <<>> THEN relay
    ELSE LET first == Head(relays)
             next == IF first.relay = 1 /\ zone \in DOMAIN relay
                     THEN [relay EXCEPT ![zone] = NormalizedState(first.state)]
                     ELSE relay
         IN  UpdateRelays(next, zone, Tail(relays))

\* ingestTelemetry: one transaction, committed.
IngestTelemetry(in) ==
    /\ requests < MaxRequests
    /\ requests' = requests + 1
    /\ sensorReadings' = sensorReadings + in.readings
    /\ Relay' = UpdateRelays(Relay, in.zone, in.relays)
    /\ IF in.status = Null
       THEN UNCHANGED <<ZoneAgent, EventLog, eventSeq>>
       ELSE /\ ZoneAgent' = [ZoneAgent EXCEPT ![in.zone].status = in.status]
            /\ eventSeq' = eventSeq + 1
            /\ IF in.status = "FAULT"
               THEN EventLog' = AppendEvent(EventLog, eventSeq + 1,
                                   EventRow(in.zone, "FAULT",
                                            [device |-> in.zone, status |-> in.status], FALSE))
               ELSE /\ UnresolvedFaults(in.zone) \cap LockedEvents = {}
                    /\ EventLog' = AppendEvent(
                                      MarkResolved(EventLog, UnresolvedFaults(in.zone)),
                                      eventSeq + 1,
                                      EventRow(in.zone, "STATUS_UPDATE",
                                               [device |-> in.zone, status |-> in.status], TRUE))
    /\ UNCHANGED <<GridConnection, FaultWaveform, published, runVars, listenerVars>>

\* ingestTelemetry: a statement failed, ROLLBACK; a value of the sequence may
\* have been used up.
IngestTelemetryFails(in) ==
    /\ requests < MaxRequests
    /\ requests' = requests + 1
    /\ \E used \in (IF in.status = Null THEN {0} ELSE {0, 1}) :
          eventSeq' = eventSeq + used
    /\ UNCHANGED <<ZoneAgent, GridConnection, EventLog, FaultWaveform, Relay,
                   sensorReadings, published, runVars, listenerVars>>

\* POST /api/notifications: mark one notification, or all, as read.
MarkRead(in) ==
    /\ requests < MaxRequests
    /\ requests' = requests + 1
    /\ LET ids == IF in.markAll
                  THEN { id \in DOMAIN EventLog : EventLog[id].resolved = FALSE }
                  ELSE { in.notificationId } \cap DOMAIN EventLog
       IN  /\ ids \cap LockedEvents = {}
           /\ EventLog' = MarkResolved(EventLog, ids)
    /\ UNCHANGED <<ZoneAgent, GridConnection, eventSeq, FaultWaveform, Relay,
                   sensorReadings, published, runVars, listenerVars>>

RelayCommand(in, command, error) ==
    [topic |-> "relay", zoneId |-> in.zone, relayNumber |-> in.relayNumber,
     command |-> command, error |-> error]

\* POST /api/relay/control.  publishOk: whether publishRelayCommand resolved.
RelayControl(in, publishOk) ==
    /\ requests < MaxRequests
    /\ requests' = requests + 1
    /\ in.zone \in DOMAIN ZoneAgent
    /\ LET command == IF in.command = "ON" THEN "CLOSED"
                      ELSE IF in.command = "OFF" THEN "OPEN" ELSE in.command
           newStatus == IF command = "CLOSED" THEN "CLOSED" ELSE "OPEN"
           isFaultOverride == ZoneAgent[in.zone].status = "FAULT"
       IN  IF command = "AUTO"
           THEN /\ eventSeq' = eventSeq + 1
                /\ EventLog' = AppendEvent(EventLog, eventSeq + 1,
                                  EventRow(in.zone, "AUTO_PROTECTION",
                                           [relay |-> in.relayNumber], TRUE))
                /\ published' = Append(published, RelayCommand(in, "AUTO", ~publishOk))
                /\ UNCHANGED Relay
           ELSE IF in.zone \notin DOMAIN Relay
           THEN UNCHANGED <<eventSeq, EventLog, published, Relay>>
           ELSE /\ eventSeq' = eventSeq + 1
                /\ published' = Append(published, RelayCommand(in, command, ~publishOk))
                /\ IF publishOk
                   THEN /\ Relay' = [Relay EXCEPT ![in.zone] = newStatus]
                        /\ EventLog' = AppendEvent(EventLog, eventSeq + 1,
                                          EventRow(in.zone,
                                                   IF isFaultOverride THEN "CRITICAL_OVERRIDE"
                                                                      ELSE "MANUAL_OVERRIDE",
                                                   [relay |-> in.relayNumber,
                                                    command |-> command,
                                                    newStatus |-> newStatus], TRUE))
                   ELSE UNCHANGED <<Relay, EventLog>>
    /\ UNCHANGED <<ZoneAgent, GridConnection, FaultWaveform, sensorReadings, runVars, listenerVars>>

Environment ==
    \/ \E in \in TelemetryInputs : IngestTelemetry(in)
    \/ \E in \in TelemetryInputs : IngestTelemetryFails(in)
    \/ \E in \in MarkReadInputs : MarkRead(in)
    \/ \E in \in RelayInputs : \E publishOk \in BOOLEAN : RelayControl(in, publishOk)

Workflow(r) ==
    \/ \E body \in RequestBodies : Post(r, body)
    \/ LoadContext(r)
    \/ ComputeDistance(r)
    \/ LoadTopology(r)
    \/ Plan(r)
    \/ QueryFails(r)
    \/ Begin(r)
    \/ CutUpdate(r)
    \/ OpenPublish(r)
    \/ CloseUpdate(r)
    \/ ClosePublish(r)
    \/ LogInsert(r)
    \/ AnalysisInsert(r)
    \/ Resolve(r)
    \/ Commit(r)
    \/ StatementFails(r)
    \/ PublishFails(r)
    \/ Rollback(r)

Next == Environment \/ \E r \in Runs : Workflow(r)

Spec == Init /\ [][Next]_vars

\* ------------------------------------------------------------------------
\* Properties
\* ------------------------------------------------------------------------

TxLabels == StatementLabels \cup PublishLabels \cup {"rollback"}

\* The step is one of run r's workflow (every workflow step moves pc or the
\* loop index; a new request raises `requests`).
RunStep(r) ==
    /\ requests' = requests
    /\ <<pc[r], actionIndex[r]>>' # <<pc[r], actionIndex[r]>>

Commits(r) == pc[r] = "commit" /\ pc'[r] = "done"

\* Run r takes the step that calls deriveRestorationPlan.
PlanStep(r) == pc[r] = "plan" /\ pc'[r] = "begin"

FaultedConnection(r) == faultContext[r].gridConnectionId

CloseTargets(r) ==
    { plan[r].actions[i].target_connection_id :
        i \in { j \in DOMAIN plan[r].actions : plan[r].actions[j].action = "CLOSE_SWITCH" } }

InsertedIds(r) == { s.id : s \in { t \in Stmts(r) : t.stmt = "INSERT EventLog" } }

FailedDispatch(r) ==
    \E i \in DOMAIN published :
        /\ published[i].topic = "switch"
        /\ published[i].run = r
        /\ published[i].error

NthSmallest(S, n) == CHOOSE x \in S : Cardinality({ y \in S : y < x }) = n - 1

\* C1: a step of a run that is not its COMMIT (a persist statement, a failed
\* statement or dispatch, the ROLLBACK that ends a failed persist) leaves the
\* committed tables as they were: connection status and is_faulty, the event
\* log and its resolved flags, the zones.  A run that ends FAILED has made
\* no other steps, so it leaves the committed store untouched.
C1_FailedPersistLeavesStore ==
    [][\A r \in Runs :
          (RunStep(r) /\ ~Commits(r)) =>
              /\ GridConnection' = GridConnection
              /\ EventLog' = EventLog
              /\ ZoneAgent' = ZoneAgent
              /\ (pc'[r] = "failed" => tx'[r] = <<>>)]_vars

\* A persist failed at the CLOSE dispatch, after the CUT and ACTIVE updates
\* were executed, and was rolled back: the connection is still ACTIVE, the
\* tie still INACTIVE, the fault event unresolved.
C1_Witness ==
    \E r \in Runs :
        /\ pc[r] = "failed"
        /\ thrown[r].message = "publish failed"
        /\ actionIndex[r] = 2
        /\ GridConnection[FaultedConnection(r)].connection_status = "ACTIVE"
        /\ \A c \in CloseTargets(r) : GridConnection[c].connection_status = "INACTIVE"
        /\ ~EventLog[faultContext[r].eventId].resolved

\* C2: whenever a workflow step changes what other readers see of the
\* connections or the event log, it is the COMMIT of one run and it shows the
\* whole outcome at once: the faulted connection CUT, one SERVICE_RESTORATION
\* entry per plan action, the FAULT_ANALYSIS entry, the fault event resolved.
C2_NoPartialOutcomeVisible ==
    [][(requests' = requests /\ <<GridConnection, EventLog>>' # <<GridConnection, EventLog>>) =>
          \E r \in Runs :
              /\ Commits(r)
              /\ GridConnection'[FaultedConnection(r)].connection_status = "CUT"
              /\ InsertedIds(r) \subseteq DOMAIN EventLog'
              /\ Cardinality({ id \in InsertedIds(r) :
                       EventLog'[id].event_type = "SERVICE_RESTORATION" })
                    = Len(plan[r].actions)
              /\ \E id \in InsertedIds(r) : EventLog'[id].event_type = "FAULT_ANALYSIS"
              /\ EventLog'[faultContext[r].eventId].resolved]_vars

\* A run is between BEGIN and COMMIT with its CUT and its log entries
\* executed, and the committed rows show none of it.
C2_Witness ==
    \E r \in Runs :
        /\ pc[r] = "commit"
        /\ InsertedIds(r) # {}
        /\ InsertedIds(r) \cap DOMAIN EventLog = {}
        /\ GridConnection[FaultedConnection(r)].connection_status # "CUT"
        /\ ~EventLog[faultContext[r].eventId].resolved

\* C3: a run one of whose OPEN / CLOSE dispatches was rejected is in its catch
\* block or has failed with that error; it never goes on to COMMIT or DONE.
C3_DispatchFailureIsHard ==
    \A r \in Runs :
        FailedDispatch(r) =>
            /\ pc[r] \in {"rollback", "failed"}
            /\ thrown[r].message = "publish failed"
            /\ (pc[r] = "failed" => tx[r] = <<>>)

C3_Witness ==
    \E r \in Runs :
        /\ FailedDispatch(r)
        /\ pc[r] = "failed"
        /\ \E i \in DOMAIN published :
              published[i].topic = "switch" /\ published[i].command = "CLOSE"
                /\ published[i].error

\* An event id the gate of LOAD_CONTEXT has to let through: an existing,
\* unresolved FAULT event with a waveform.
ValidFaultEvent(id) ==
    /\ id \in DOMAIN EventLog
    /\ EventLog[id].event_type = "FAULT"
    /\ EventLog[id].resolved = FALSE
    /\ \E fw \in FaultWaveform : fw.event_id = id

\* C4: LOAD_CONTEXT lets a run proceed only for an existing, unresolved FAULT
\* event with a waveform; for any other id the run does not go on.
C4_LoadContextIsGate ==
    [][\A r \in Runs :
          (pc[r] = "load_context" /\ pc'[r] = "compute_distance") =>
              ValidFaultEvent(faultEventId[r])]_vars

\* C5: a run whose fault context makes the estimator fail stops in
\* COMPUTE_DISTANCE: it rejects with the estimator's own error, has read no
\* topology, made no plan, opened no transaction and dispatched nothing, and
\* a run that has failed does nothing more.
C5_EstimatorFailureAborts ==
    [][\A r \in Runs :
          /\ (/\ pc[r] = "compute_distance"
              /\ pc'[r] # "compute_distance"
              /\ ~Estimate(faultContext[r]).ok) =>
                 /\ pc'[r] = "failed"
                 /\ thrown'[r] = Estimate(faultContext[r]).error
                 /\ network'[r] = NoNetwork
                 /\ plan'[r] = NoPlan
                 /\ tx'[r] = <<>>
                 /\ \A i \in DOMAIN published' :
                       published'[i].topic = "switch" => published'[i].run # r
          /\ pc[r] = "failed" =>
                 /\ pc'[r] = "failed"
                 /\ thrown'[r] = thrown[r]
                 /\ network'[r] = network[r]
                 /\ plan'[r] = plan[r]
                 /\ tx'[r] = tx[r]
                 /\ \A i \in DOMAIN published' \ DOMAIN published :
                       published'[i].topic = "switch" => published'[i].run # r]_vars

C5_Witness ==
    \E r \in Runs :
        /\ pc[r] = "failed"
        /\ faultContext[r] # NoContext
        /\ thrown[r].message = "Inductance per km must be a positive finite number."

\* The stages of one invocation, in their order.
Stage(label) ==
    CASE label = "idle" -> 0
      [] label = "load_context" -> 1
      [] label = "compute_distance" -> 2
      [] label = "load_topology" -> 3
      [] label = "plan" -> 4
      [] label \in TxLabels \cup {"begin"} -> 5
      [] label \in {"done", "failed", "bad_request"} -> 6

\* The statements of persistOutcome, in their order in the code.
Position(label) ==
    CASE label = "begin" -> 1
      [] label = "cut_update" -> 2
      [] label = "open_publish" -> 3
      [] label = "close_update" -> 4
      [] label = "close_publish" -> 5
      [] label = "log_insert" -> 6
      [] label = "analysis_insert" -> 7
      [] label = "resolve" -> 8
      [] label = "commit" -> 9
      [] label = "rollback" -> 10
      [] OTHER -> 0

\* C6: every step of a run stays in its stage, enters the next stage, or ends
\* the invocation; it ends FAILED exactly when an error was raised and DONE
\* only from COMMIT; inside PERSIST a statement is reached again only by the
\* loop going on to the next plan action; DONE and FAILED are final.
C6_SinglePassInOrder ==
    [][\A r \in Runs :
          RunStep(r) =>
              /\ pc[r] \notin {"done", "failed"}
              /\ \/ Stage(pc'[r]) = Stage(pc[r]) + 1 /\ pc'[r] # "failed"
                    /\ (pc'[r] = "done" => pc[r] = "commit")
                 \/ pc'[r] = "failed" /\ thrown'[r] # NoError
                 \/ /\ Stage(pc'[r]) = Stage(pc[r])
                    /\ \/ Position(pc'[r]) > Position(pc[r])
                       \/ /\ pc[r] = "log_insert"
                          /\ pc'[r] \in {"close_update", "log_insert"}
                          /\ actionIndex'[r] = actionIndex[r] + 1
              /\ (thrown'[r] # NoError => pc'[r] \in {"rollback", "failed"})]_vars

\* One run went through all stages to DONE, another one ended FAILED in the
\* catch block of PERSIST.
C6_Witness ==
    \E r, o \in Runs :
        /\ pc[r] = "done"
        /\ pc[o] = "failed"
        /\ thrown[o].message = "query failed"
        /\ plan[o] # NoPlan

IsRestorationInsert(s) ==
    s.stmt = "INSERT EventLog" /\ s.row.event_type = "SERVICE_RESTORATION"

IsCloseUpdate(s) ==
    s.stmt = "UPDATE GridConnection" /\ s.connection_status = "ACTIVE"

RestorationInsertsBefore(r, i) ==
    Cardinality({ j \in 1 .. (i - 1) : IsRestorationInsert(tx[r][j]) })

OpenDispatchedBefore(r, j) ==
    \E i \in 1 .. (j - 1) :
        published[i] = SwitchCommand(r, FaultedConnection(r), "OPEN",
                                     "Isolate detected faulted feeder segment", FALSE)

\* C7: in every transaction the first statement marks the faulted connection
\* CUT, every ACTIVE update and every CLOSE dispatch come after it and after
\* the OPEN dispatch, the ACTIVE updates and log entries follow the order of
\* plan.actions, and the UPDATE that resolves the fault event is the last
\* statement before COMMIT.
C7_IsolationPrecedesBackfeed ==
    \A r \in Runs :
        /\ \A i \in DOMAIN tx[r] :
              /\ (i = 1) = (tx[r][i] = UpdateConnection(FaultedConnection(r), "CUT", TRUE))
              /\ IsCloseUpdate(tx[r][i]) =>
                    /\ OpenDispatchedBefore(r, Len(published) + 1)
                    /\ LET k == RestorationInsertsBefore(r, i) + 1
                       IN  /\ k \in DOMAIN plan[r].actions
                           /\ plan[r].actions[k].action = "CLOSE_SWITCH"
                           /\ plan[r].actions[k].target_connection_id = tx[r][i].id
              /\ IsRestorationInsert(tx[r][i]) =>
                    tx[r][i].row.description =
                        ActionDescription(plan[r].actions[RestorationInsertsBefore(r, i) + 1])
              /\ tx[r][i].stmt = "UPDATE EventLog" =>
                    i = Len(tx[r]) /\ pc[r] \in {"commit", "rollback"}
        /\ \A j \in DOMAIN published :
              (published[j].topic = "switch" /\ published[j].run = r
                 /\ published[j].command = "CLOSE") =>
                    OpenDispatchedBefore(r, j)

C7_Witness ==
    \E r \in Runs :
        /\ pc[r] = "commit"
        /\ \E i \in DOMAIN tx[r] : IsCloseUpdate(tx[r][i])
        /\ \E j \in DOMAIN published :
              published[j].topic = "switch" /\ published[j].run = r
                /\ published[j].command = "CLOSE" /\ ~published[j].error

\* C8: the step that ends a run DONE is its COMMIT, and in the committed
\* store it leaves the faulted connection CUT and faulty, every CLOSE_SWITCH
\* target of the plan ACTIVE and not faulty, the fault event resolved.
C8_SuccessMeansCommitted ==
    [][\A r \in Runs :
          (pc'[r] = "done" /\ pc[r] # "done") =>
              /\ pc[r] = "commit"
              /\ GridConnection'[FaultedConnection(r)].connection_status = "CUT"
              /\ GridConnection'[FaultedConnection(r)].is_faulty = TRUE
              /\ \A c \in CloseTargets(r) :
                    /\ GridConnection'[c].connection_status = "ACTIVE"
                    /\ GridConnection'[c].is_faulty = FALSE
              /\ EventLog'[faultContext[r].eventId].resolved = TRUE]_vars

C8_Witness ==
    \E r \in Runs :
        /\ pc[r] = "done"
        /\ CloseTargets(r) # {}
        /\ GridConnection[FaultedConnection(r)].connection_status = "CUT"
        /\ \A c \in CloseTargets(r) : GridConnection[c].connection_status = "ACTIVE"

\* C9: the COMMIT of a run adds to the event log exactly Len(plan.actions) + 1
\* rows: in event_id order one SERVICE_RESTORATION row per plan action, in
\* plan order, then one FAULT_ANALYSIS row; no other step of a run adds a row.
C9_LogGrowsByPlanPlusOne ==
    [][\A r \in Runs :
          RunStep(r) =>
              LET new == DOMAIN EventLog' \ DOMAIN EventLog
                  n == Len(plan[r].actions)
              IN  IF Commits(r)
                  THEN /\ Cardinality(new) = n + 1
                       /\ \A k \in 1 .. n :
                             LET row == EventLog'[NthSmallest(new, k)]
                             IN  /\ row.event_type = "SERVICE_RESTORATION"
                                 /\ row.description = ActionDescription(plan[r].actions[k])
                       /\ EventLog'[NthSmallest(new, n + 1)].event_type = "FAULT_ANALYSIS"
                  ELSE new = {}]_vars

C9_Witness ==
    \E r \in Runs :
        /\ pc[r] = "done"
        /\ Cardinality({ id \in DOMAIN EventLog :
               EventLog[id].event_type = "SERVICE_RESTORATION" }) = 2
        /\ Cardinality({ id \in DOMAIN EventLog :
               EventLog[id].event_type = "FAULT_ANALYSIS" }) = 1

\* C10: no step removes a committed event-log row or changes a field of it
\* other than resolved.
C10_EventLogAppendOnly ==
    [][\A id \in DOMAIN EventLog :
          /\ id \in DOMAIN EventLog'
          /\ [EventLog'[id] EXCEPT !.resolved = EventLog[id].resolved] = EventLog[id]]_vars

\* The log has grown and an entry that was there before has been marked
\* resolved by a request other than a FLISR run.
C10_Witness ==
    /\ \A r \in Runs : pc[r] # "done"
    /\ EventLog[1].resolved
    /\ Cardinality(DOMAIN EventLog) > 5

\* C11: no two invocations with the same fault event id both end DONE, so
\* the event's log entries are appended and its commands dispatched once.
C11_ConsumedExactlyOnce ==
    \A r, o \in Runs :
        (r # o /\ pc[r] = "done" /\ pc[o] = "done") =>
            faultEventId[r] # faultEventId[o]

\* Run o is a re-invocation for the event of run r, which had failed, and no
\* other request has been received.
Retried(r, o) ==
    /\ r # o
    /\ retry[o]
    /\ pc[r] = "failed"
    /\ faultEventId[r] = faultEventId[o]
    /\ flisrTriggerSchema([type |-> "number", integral |-> TRUE, value |-> faultEventId[r]])
    /\ requests = Cardinality({r, o})

\* The provisioning the store started from.
Scenario ==
    CHOOSE s \in LineScenarios : GridConnection["C3"].length_km = s.len

\* The connection table a first successful run with that plan leaves.
FirstRunConnections(ctx, actions) ==
    [c \in ConnIds |->
        IF c = ctx.gridConnectionId
        THEN [InitialConnections(Scenario)[c] EXCEPT
                 !.connection_status = "CUT", !.is_faulty = TRUE]
        ELSE IF \E i \in DOMAIN actions :
                    actions[i].action = "CLOSE_SWITCH" /\ actions[i].target_connection_id = c
        THEN [InitialConnections(Scenario)[c] EXCEPT
                 !.connection_status = "ACTIVE", !.is_faulty = FALSE]
        ELSE InitialConnections(Scenario)[c]]

\* The rows a first successful run with that plan appends, in order.
FirstRunEntries(ctx, distance, actions) ==
    [i \in 1 .. (Len(actions) + 1) |->
        IF i <= Len(actions)
        THEN EventRow(Null, "SERVICE_RESTORATION", ActionDescription(actions[i]), TRUE)
        ELSE EventRow(Null, "FAULT_ANALYSIS", AnalysisSummary(ctx, distance), TRUE)]

\* The event log a first successful run with that plan leaves.
FirstRunEventLog(ctx, distance, actions) ==
    LET n == Cardinality(DOMAIN InitialEventLog)
    IN  [id \in 1 .. (n + Len(actions) + 1) |->
            IF id > n THEN FirstRunEntries(ctx, distance, actions)[id - n]
            ELSE IF id = ctx.eventId THEN [InitialEventLog[id] EXCEPT !.resolved = TRUE]
            ELSE InitialEventLog[id]]

\* The tie candidates of the fault in the topology the store started from.
InitialTieCandidates(ctx) ==
    { c \in ConnIds :
        IsTieCandidate([grid_connection_id |-> c] @@ InitialConnections(Scenario)[c], ctx) }

\* C12 as stated: when the retry of a failed attempt commits, it has computed
\* the distance result and the plan of the failed attempt and leaves the
\* store exactly as a first successful run does.
C12_RetryLeavesSameStore ==
    [][\A r, o \in Runs :
          (Retried(r, o) /\ Commits(o)) =>
              /\ distanceResult[r] # NoDistance => distanceResult[o] = distanceResult[r]
              /\ plan[r] # NoPlan => plan[o] = plan[r]
              /\ GridConnection' = FirstRunConnections(faultContext[o], plan[o].actions)
              /\ EventLog' = FirstRunEventLog(faultContext[o], distanceResult[o],
                                              plan[o].actions)]_vars

\* C12 amended: when the retry of a failed attempt commits, it has computed
\* the distance result of the failed attempt and, when the fault has at most
\* one tie candidate, its plan; it leaves the connection table and the
\* earlier log rows as a first successful run with the retry's plan does, and
\* has appended the same rows in the same order, under event ids that may
\* be later ones.
C12_RetryLeavesSameOutcome ==
    [][\A r, o \in Runs :
          (Retried(r, o) /\ Commits(o)) =>
              LET ctx == faultContext[o]
                  new == DOMAIN EventLog' \ DOMAIN InitialEventLog
                  first == FirstRunEventLog(ctx, distanceResult[o], plan[o].actions)
                  rows == FirstRunEntries(ctx, distanceResult[o], plan[o].actions)
              IN  /\ distanceResult[r] # NoDistance => distanceResult[o] = distanceResult[r]
                  /\ (plan[r] # NoPlan /\ Cardinality(InitialTieCandidates(ctx)) <= 1) =>
                         plan[o] = plan[r]
                  /\ GridConnection' = FirstRunConnections(ctx, plan[o].actions)
                  /\ \A id \in DOMAIN InitialEventLog : EventLog'[id] = first[id]
                  /\ Cardinality(new) = Len(rows)
                  /\ \A k \in DOMAIN rows : EventLog'[NthSmallest(new, k)] = rows[k]]_vars

\* A persist that had inserted a log row was rolled back, then the retry
\* succeeded: the first event id after the initial rows was never committed.
C12_Witness ==
    \E r, o \in Runs :
        /\ Retried(r, o)
        /\ pc[o] = "done"
        /\ plan[r] # NoPlan
        /\ Cardinality(DOMAIN InitialEventLog) + 1 \notin DOMAIN EventLog

Malformed(body) == ~body.json \/ ~flisrTriggerSchema(body)

\* C16: a request with a malformed body is answered 400 and runs nothing of
\* the workflow; a run that fails is answered 404 for a NotFoundError and 500
\* for any other error; 200 is answered only once the workflow is DONE.
C16_TriggerSurfaceClassifies ==
    [][\A r \in Runs :
          /\ \A body \in RequestBodies :
                (Malformed(body) /\ Post(r, body)) =>
                    /\ ResponseStatus(r)' = 400
                    /\ faultContext'[r] = NoContext
          /\ (pc[r] # "failed" /\ pc'[r] = "failed" /\ faultEventId'[r] > 0) =>
                ResponseStatus(r)' = IF thrown'[r].name = "NotFoundError" THEN 404 ELSE 500
          /\ ResponseStatus(r)' = 200 => pc'[r] = "done"]_vars

\* C17: in every committed state a CUT connection is faulty and an ACTIVE one
\* is not; the workflow is the only writer of the two columns.
C17_CutImpliesFaulty ==
    \A c \in ConnIds :
        /\ GridConnection[c].connection_status = "CUT" => GridConnection[c].is_faulty
        /\ GridConnection[c].connection_status = "ACTIVE" => ~GridConnection[c].is_faulty

\* One committed run has cut its faulted connection and closed a tie; a
\* second one has then cut the connection the first had closed.
C17_Witness ==
    \E r, o \in Runs :
        /\ pc[r] = "done" /\ pc[o] = "done"
        /\ CloseTargets(r) # {}
        /\ FaultedConnection(o) \in CloseTargets(r)
        /\ GridConnection[FaultedConnection(o)].connection_status = "CUT"
        /\ GridConnection[FaultedConnection(r)].connection_status = "CUT"

\* The kind of error the taxonomy gives to a failed estimator call: the
\* timestamp delta is a PrecisionError, every other one an
\* InvalidParameterError.
EstimatorErrorKind(ctx) ==
    IF ~calculateTimeDeltaSeconds(ctx.timestampA, ctx.timestampB).ok
    THEN "PrecisionError"
    ELSE "InvalidParameterError"

\* C21: the error a failed run rejects with names its kind: an estimator
\* failure is an InvalidParameterError or, for the timestamp delta, a
\* PrecisionError; a fault event that is missing or resolved is a
\* NotFoundError; a failure inside the persist is a TransactionError.
C21_ErrorsKeepTheirKind ==
    [][\A r \in Runs :
          /\ (pc[r] = "compute_distance" /\ pc'[r] = "failed") =>
                thrown'[r].name = EstimatorErrorKind(faultContext[r])
          /\ (/\ pc[r] = "load_context"
              /\ pc'[r] # "load_context"
              /\ thrown'[r].message # "query failed"
              /\ ~ValidFaultEvent(faultEventId[r])) =>
                /\ pc'[r] = "failed"
                /\ thrown'[r].name = "NotFoundError"
          /\ (pc[r] = "rollback" /\ pc'[r] = "failed") =>
                thrown'[r].name = "TransactionError"]_vars

\* C22: no plan closes the connection it isolates, also when that
\* connection is stored INACTIVE and not faulty, so the commit of a run
\* leaves its faulted connection CUT and faulty.
C22_FaultedConnectionNeverClosed ==
    [][\A r \in Runs :
          /\ PlanStep(r) => FaultedConnection(r) \notin CloseTargets(r)'
          /\ Commits(r) =>
                /\ GridConnection'[FaultedConnection(r)].connection_status = "CUT"
                /\ GridConnection'[FaultedConnection(r)].is_faulty]_vars

\* A run on a connection that was stored INACTIVE and healthy has closed
\* another tie and committed.
C22_Witness ==
    \E r \in Runs :
        /\ pc[r] = "done"
        /\ requests = 1
        /\ InitialConnections(Scenario)[FaultedConnection(r)].connection_status = "INACTIVE"
        /\ ~InitialConnections(Scenario)[FaultedConnection(r)].is_faulty
        /\ CloseTargets(r) # {}
        /\ GridConnection[FaultedConnection(r)].connection_status = "CUT"
        /\ GridConnection[FaultedConnection(r)].is_faulty

\* C23: a switch command that the broker took belongs to a persist that
\* commits: no run whose persist has ended in failure has an OPEN or CLOSE
\* command on the command channel.
C23_PublishedOnlyIfCommitted ==
    \A i \in DOMAIN published :
        (published[i].topic = "switch" /\ ~published[i].error) =>
            pc[published[i].run] # "failed"

\* C24: the commit of a run never re-activates a connection that another
\* run, working on a fault of a different connection, has already committed
\* as CUT and faulty.
C24_CommittedCutStaysCut ==
    [][\A r, o \in Runs :
          (/\ Commits(r)
           /\ pc[o] = "done"
           /\ FaultedConnection(o) # FaultedConnection(r)
           /\ GridConnection[FaultedConnection(o)].connection_status = "CUT"
           /\ GridConnection[FaultedConnection(o)].is_faulty) =>
              /\ GridConnection'[FaultedConnection(o)].connection_status = "CUT"
              /\ GridConnection'[FaultedConnection(o)].is_faulty]_vars

\* C25: a run whose fault event is stored as resolved when its persist
\* begins marks no connection CUT and dispatches no OPEN command.
C25_NoSwitchingForResolvedEvent ==
    [][\A r \in Runs :
          resolvedAtBegin[r] =>
              /\ (pc[r] = "cut_update" => pc'[r] \in {"cut_update", "rollback"})
              /\ \A i \in DOMAIN published' \ DOMAIN published :
                    published'[i].topic = "switch" => published'[i].run # r
              /\ ~Commits(r)]_vars

\* The columns of a connection that describe the line, not its state.
LineParameters(row) ==
    <<row.from_zone_agent_id, row.to_zone_agent_id, row.length_km,
      row.inductance_h_km, row.capacitance_f_km>>

\* The connections run r may write: the faulted one and those its plan closes.
PlanTargets(r) ==
    IF faultContext[r] = NoContext THEN {}
    ELSE {FaultedConnection(r)} \cup CloseTargets(r)

\* C26: a step of the workflow changes no zone row, no connection row other
\* than the faulted connection and the plan's CLOSE_SWITCH targets, and no
\* line parameter of any connection; the only OPEN it dispatches is the one
\* for the faulted connection, once, and a CLOSE is dispatched only for a
\* CLOSE_SWITCH action, to that action's target.
C26_WorkflowFrame ==
    [][\A r \in Runs :
          RunStep(r) =>
              /\ ZoneAgent' = ZoneAgent
              /\ \A c \in ConnIds :
                    /\ c \notin PlanTargets(r) => GridConnection'[c] = GridConnection[c]
                    /\ LineParameters(GridConnection'[c]) = LineParameters(GridConnection[c])
              /\ \A i \in DOMAIN published' \ DOMAIN published :
                    (published'[i].topic = "switch" /\ published'[i].run = r) =>
                        IF published'[i].command = "OPEN"
                        THEN /\ published'[i].gridConnectionId = FaultedConnection(r)
                             /\ \A j \in DOMAIN published :
                                   (published[j].topic = "switch" /\ published[j].run = r) =>
                                       published[j].command # "OPEN"
                        ELSE /\ actionIndex[r] \in DOMAIN plan[r].actions
                             /\ plan[r].actions[actionIndex[r]].action = "CLOSE_SWITCH"
                             /\ plan[r].actions[actionIndex[r]].target_connection_id =
                                   published'[i].gridConnectionId]_vars

\* A committed run has isolated one connection and closed a second one while
\* a third connection exists that its plan does not name.
C26_Witness ==
    \E r \in Runs :
        /\ pc[r] = "done"
        /\ CloseTargets(r) # {}
        /\ ConnIds \ PlanTargets(r) # {}
        /\ \E i \in DOMAIN published :
              /\ published[i].topic = "switch"
              /\ published[i].run = r
              /\ published[i].command = "CLOSE"

\* C28: a relay-control request whose command the broker did not take
\* leaves the store as it was: no Relay status changes and no Event Log
\* entry is added, for OPEN / CLOSED as for AUTO; and AUTO never changes a
\* Relay status.
C28_FailedRelayPublishLeavesNoTrace ==
    [][\A i \in DOMAIN published' \ DOMAIN published :
          published'[i].topic = "relay" =>
              /\ published'[i].error => (Relay' = Relay /\ EventLog' = EventLog)
              /\ published'[i].command = "AUTO" => Relay' = Relay]_vars

\* ------------------------------------------------------------------------
\* The planner on its own: every small topology, every read order
\* ------------------------------------------------------------------------

\* The rows a connection of the snapshot may hold.
PlannerRows ==
    { [ConnectionRow(e[1], e[2], status, Finite(10), Finite(1200), Finite(9))
          EXCEPT !.is_faulty = faulty] :
        e \in {<<"Z1", "Z2">>, <<"Z2", "Z3">>, <<"Z3", "Z4">>},
        status \in {"ACTIVE", "INACTIVE", "CUT"},
        faulty \in BOOLEAN }

\* Table "GridConnection" when fetchNetworkState reads it: any subset of the
\* connections (none included), each with any row.
PlannerTopologies == UNION { [D -> PlannerRows] : D \in SUBSET ConnIds }

\* The context fetchFaultContext returned for a fault on connection id.
PlannerContext(id) ==
    LET from == IF id \in DOMAIN GridConnection
                THEN GridConnection[id].from_zone_agent_id ELSE "Z1"
        to == IF id \in DOMAIN GridConnection
              THEN GridConnection[id].to_zone_agent_id ELSE "Z2"
    IN  [eventId |-> 1,
         eventDescription |-> InitialEventLog[1].description,
         gridConnectionId |-> id,
         fromZoneId |-> from,
         fromZoneName |-> ZoneName(ZoneAgent, from),
         toZoneId |-> to,
         toZoneName |-> ZoneName(ZoneAgent, to),
         lengthKm |-> Finite(10),
         inductanceHKm |-> Finite(1200),
         capacitanceFKm |-> Finite(9),
         timestampA |-> StringTimestamp(7, 1000000),
         timestampB |-> StringTimestamp(7, 999000)]

\* Run r1 has its context and its distance and is about to read the topology.
PlannerInit ==
    /\ \E topology \in PlannerTopologies : StoreIs(topology, InitialWaveforms)
    /\ published = <<>>
    /\ requests = 1
    /\ pc = [r \in Runs |-> IF r = "r1" THEN "load_topology" ELSE "idle"]
    /\ faultEventId = [r \in Runs |-> IF r = "r1" THEN 1 ELSE 0]
    /\ retry = [r \in Runs |-> FALSE]
    /\ resolvedAtBegin = [r \in Runs |-> FALSE]
    /\ NoListener
    /\ \E id \in {"C1", "C2"} :
          /\ faultContext = [r \in Runs |-> IF r = "r1" THEN PlannerContext(id)
                                             ELSE NoContext]
          /\ distanceResult = [r \in Runs |-> IF r = "r1"
                                               THEN Estimate(PlannerContext(id)).value
                                               ELSE NoDistance]
    /\ network = [r \in Runs |-> NoNetwork]
    /\ plan = [r \in Runs |-> NoPlan]
    /\ actionIndex = [r \in Runs |-> 0]
    /\ tx = [r \in Runs |-> <<>>]
    /\ thrown = [r \in Runs |-> NoError]

PlannerNext == LoadTopology("r1") \/ Plan("r1")

PlannerSpec == PlannerInit /\ [][PlannerNext]_vars

\* Positions of the plan's actions of one kind.
ActionsOfKind(p, kind) == { i \in DOMAIN p.actions : p.actions[i].action = kind }

\* Positions of the snapshot's connections that are open, healthy and share
\* an endpoint zone with the faulted connection.
AdjacentInactive(r) ==
    LET ctx == faultContext[r]
        ends == {ctx.fromZoneId, ctx.toZoneId}
    IN  { i \in DOMAIN network[r].connections :
            LET c == network[r].connections[i]
            IN  /\ c.connection_status = "INACTIVE"
                /\ c.is_faulty = FALSE
                /\ {c.from_zone_agent_id, c.to_zone_agent_id} \cap ends # {} }

\* The same, the faulted connection itself left out.
OtherAdjacentInactive(r) ==
    { i \in AdjacentInactive(r) :
        network[r].connections[i].grid_connection_id # faultContext[r].gridConnectionId }

Lowest(S) == CHOOSE i \in S : \A j \in S : i <= j

\* The plan closes exactly the first connection of the set, or nothing when
\* the set is empty.
ClosesFirstOf(r, S) ==
    LET closes == ActionsOfKind(plan'[r], "CLOSE_SWITCH")
    IN  /\ Cardinality(closes) <= 1
        /\ (S = {}) <=> (closes = {})
        /\ \A i \in closes :
              plan'[r].actions[i].target_connection_id =
                  network[r].connections[Lowest(S)].grid_connection_id

\* C13: whatever the fault context and the topology, the empty connection
\* list included, the first action of the plan opens the switch of the
\* faulted connection.
C13_IsolatesFirst ==
    [][\A r \in Runs : PlanStep(r) =>
          /\ Len(plan'[r].actions) >= 1
          /\ plan'[r].actions[1].action = "OPEN_SWITCH"
          /\ plan'[r].actions[1].target_connection_id = faultContext[r].gridConnectionId]_vars

\* A plan derived from an empty connection list.
C13_Witness ==
    /\ pc["r1"] = "begin"
    /\ DOMAIN GridConnection = {}
    /\ plan["r1"].actions[1].action = "OPEN_SWITCH"

\* C14 as stated: the plan closes the first connection of the list that is
\* INACTIVE, not faulty and shares an endpoint zone with the faulted
\* connection, and holds at most one CLOSE_SWITCH.
C14_ClosesFirstAdjacentInactive ==
    [][\A r \in Runs : PlanStep(r) => ClosesFirstOf(r, AdjacentInactive(r))]_vars

\* C14: the plan closes the first connection of the list, other than the
\* faulted one, that is INACTIVE, not faulty and shares an endpoint zone with
\* the faulted connection, and holds at most one CLOSE_SWITCH.
C14_ClosesFirstOtherAdjacentInactive ==
    [][\A r \in Runs : PlanStep(r) => ClosesFirstOf(r, OtherAdjacentInactive(r))]_vars

\* A tie was closed although the faulted connection itself is open and
\* healthy and another open, healthy connection touches none of its zones.
C14_Witness ==
    /\ pc["r1"] = "begin"
    /\ \E i \in ActionsOfKind(plan["r1"], "CLOSE_SWITCH") :
          plan["r1"].actions[i].target_connection_id # faultContext["r1"].gridConnectionId
    /\ LET ctx == faultContext["r1"]
       IN  /\ ctx.gridConnectionId \in DOMAIN GridConnection
           /\ GridConnection[ctx.gridConnectionId].connection_status = "INACTIVE"
           /\ GridConnection[ctx.gridConnectionId].is_faulty = FALSE
           /\ \E c \in DOMAIN GridConnection :
                 /\ GridConnection[c].connection_status = "INACTIVE"
                 /\ GridConnection[c].is_faulty = FALSE
                 /\ {GridConnection[c].from_zone_agent_id,
                      GridConnection[c].to_zone_agent_id}
                        \cap {ctx.fromZoneId, ctx.toZoneId} = {}

\* C15: when no connection other than the faulted one is INACTIVE, healthy
\* and adjacent, the plan is exactly the isolation followed by a NOTIFY on
\* the faulted connection that carries the escalation flag.
C15_EscalatesWithoutTie ==
    [][\A r \in Runs : (PlanStep(r) /\ OtherAdjacentInactive(r) = {}) =>
          /\ Len(plan'[r].actions) = 2
          /\ plan'[r].actions[1].action = "OPEN_SWITCH"
          /\ plan'[r].actions[1].target_connection_id = faultContext[r].gridConnectionId
          /\ plan'[r].actions[2].action = "NOTIFY"
          /\ plan'[r].actions[2].target_connection_id = faultContext[r].gridConnectionId
          /\ plan'[r].actions[2].metadata = [escalation |-> "dispatch_crew"]]_vars

\* An escalation although an open, healthy connection exists: it touches
\* none of the faulted connection's zones.
C15_Witness ==
    /\ pc["r1"] = "begin"
    /\ ActionsOfKind(plan["r1"], "NOTIFY") = {2}
    /\ \E c \in DOMAIN GridConnection :
          /\ c # faultContext["r1"].gridConnectionId
          /\ GridConnection[c].connection_status = "INACTIVE"
          /\ GridConnection[c].is_faulty = FALSE

\* ------------------------------------------------------------------------
\* The estimator on its own: line parameters and timestamps of every shape
\* ------------------------------------------------------------------------

\* length_km of the faulted connection; the longest is beyond the range in
\* which lengthKm * 1000 is finite.
EstimatorLengths ==
    {Finite(0), Finite(1), Finite(7), Finite(10), Finite(13), Finite(2000), NotANumber}

\* inductance_h_km and capacitance_f_km of the faulted connection.
EstimatorLines ==
    {<<Finite(1200), Finite(9)>>, <<Finite(1), Finite(1)>>, <<Finite(0), Finite(9)>>}

\* timestamp_a and timestamp_b of the waveform: readings a few microseconds
\* apart, a quarter of a second apart, and readings above 2^53 that are
\* 2^53 - 1 and 2^53 nanoseconds apart.
EstimatorTimestamps ==
    { StringTimestamp(t[1], t[2]) :
        t \in { <<7, 100000>>, <<7, 100001>>, <<7, 101000>>, <<7, 77102>>,
                <<7, 133000>>, <<7, 140000>>, <<7, 100000 + 2 ^ 26>>,
                <<2 ^ 26 + 7, 0>>, <<2 ^ 27 + 6, LIMB - 1>>, <<2 ^ 27 + 7, 0>> } }
    \cup { [type |-> "bigint", wellFormed |-> TRUE, int |-> <<7, 100000>>],
           [type |-> "number", wellFormed |-> FALSE, int |-> <<0, 0>>],
           [type |-> "string", wellFormed |-> FALSE, int |-> <<0, 0>>],
           [type |-> "object", wellFormed |-> FALSE, int |-> <<0, 0>>] }

\* Table "GridConnection" with the faulted connection C1 as given.
EstimatorConnections(len, line) ==
    [c \in ConnIds |->
        IF c = "C1"
        THEN ConnectionRow("Z1", "Z2", "ACTIVE", len, line[1], line[2])
        ELSE ConnectionRow("Z2", "Z3", "INACTIVE", Finite(10), Finite(1200), Finite(9))]

\* Run r1 has been invoked for fault event 1, recorded on connection C1.
EstimatorInit ==
    /\ \E len \in EstimatorLengths, line \in EstimatorLines,
          a \in EstimatorTimestamps, b \in EstimatorTimestamps :
          StoreIs(EstimatorConnections(len, line),
                  { [event_id |-> 1, grid_connection_id |-> "C1",
                     timestamp_a |-> a, timestamp_b |-> b] })
    /\ published = <<>>
    /\ requests = 1
    /\ pc = [r \in Runs |-> IF r = "r1" THEN "load_context" ELSE "idle"]
    /\ faultEventId = [r \in Runs |-> IF r = "r1" THEN 1 ELSE 0]
    /\ retry = [r \in Runs |-> FALSE]
    /\ resolvedAtBegin = [r \in Runs |-> FALSE]
    /\ NoListener
    /\ faultContext = [r \in Runs |-> NoContext]
    /\ distanceResult = [r \in Runs |-> NoDistance]
    /\ network = [r \in Runs |-> NoNetwork]
    /\ plan = [r \in Runs |-> NoPlan]
    /\ actionIndex = [r \in Runs |-> 0]
    /\ tx = [r \in Runs |-> <<>>]
    /\ thrown = [r \in Runs |-> NoError]

EstimatorNext == LoadContext("r1") \/ ComputeDistance("r1")

EstimatorSpec == EstimatorInit /\ [][EstimatorNext]_vars

\* The three estimator calls of run r have returned.
Computed(r) == pc[r] = "load_topology"

\* x <= y
FLessEq(x, y) == FLess(x, y) \/ (x = y /\ x.kind # "NaN")

\* 0.5 * (lengthMeters + v * dt) for the inputs of run r.
RawDistanceOf(r) ==
    FAdd(Fl(faultContext[r].lengthKm.val * 1000000),
         Travel(distanceResult[r].propagationSpeed, distanceResult[r].timeDeltaSeconds))

\* The distance lies on the line and clamped tells whether the raw distance
\* did not.
ClampedOntoLine(r) ==
    LET d == distanceResult[r]
    IN  /\ FLessEq(Finite(0), d.distanceFromStartMeters)
        /\ FLessEq(d.distanceFromStartMeters, d.lineLengthMeters)
        /\ d.clamped <=> (\/ FLess(RawDistanceOf(r), Finite(0))
                          \/ FLess(d.lineLengthMeters, RawDistanceOf(r)))

C19_ConfidenceOneIffUnclamped ==
    \A r \in Runs : Computed(r) =>
        LET d == distanceResult[r]
        IN  /\ (d.confidence = 100) <=> ~d.clamped
            /\ d.clamped => (40 <= d.confidence /\ d.confidence < 100)

\* |a - b| > 2^53 - 1 for two integers held as limbs.
FartherThanSafe(a, b) ==
    LET hi == a[1] - b[1]
        lo == a[2] - b[2]
    IN  \/ hi > 2 ^ 26 \/ (hi = 2 ^ 26 /\ lo >= 0)
        \/ hi < -(2 ^ 26) \/ (hi = -(2 ^ 26) /\ lo <= 0)

\* The sign of a - b.
SignOfDifference(a, b) ==
    IF a = b THEN 0 ELSE IF a[1] < b[1] \/ (a[1] = b[1] /\ a[2] < b[2]) THEN -1 ELSE 1

\* The sign of a delta in nanoseconds.
SignOfDelta(delta) == IF delta = <<0, 0>> THEN 0 ELSE IF delta[1] < 0 THEN -1 ELSE 1

\* The conversion of the timestamp succeeds.
Convertible(value) == toBigIntTimestamp(value).ok

TelemetryPayloads ==
    { [zone |-> z, status |-> st, readings |-> n, relays |-> rl] :
        z \in Zones,
        st \in {Null, "NORMAL", "FAULT", "TRIPPED"},
        n \in {0, 1},
        rl \in {<<>>, <<[relay |-> 1, state |-> "OFF"]>>} }

TelemetryNext ==
    \/ \E in \in TelemetryPayloads : IngestTelemetry(in)
    \/ \E in \in TelemetryPayloads : IngestTelemetryFails(in)

TelemetrySpec == Init /\ [][TelemetryNext]_vars

\* The rows of the event log that the step has appended.
AppendedEvents == { EventLog'[id] : id \in DOMAIN EventLog' \ DOMAIN EventLog }

\* The step leaves the status of every zone other than `zone`.
OtherZonesKeepStatus(zone) ==
    \A z \in Zones \ {zone} : ZoneAgent'[z] = ZoneAgent[z]

\* C27: a committed ingestTelemetry with status FAULT sets the zone to FAULT,
\* appends one unresolved FAULT event of that zone and leaves every earlier
\* row; with any other status it sets the zone's status, appends one resolved
\* STATUS_UPDATE event and marks resolved exactly the unresolved FAULT events
\* of that zone; without a status it changes neither zone nor log; a failed
\* one commits no reading, relay update, status or event.
C27_TelemetryStatusHandling ==
    [][\A in \in TelemetryPayloads :
          /\ IngestTelemetry(in) =>
                /\ OtherZonesKeepStatus(in.zone)
                /\ DOMAIN EventLog \subseteq DOMAIN EventLog'
                /\ CASE in.status = Null ->
                          /\ ZoneAgent' = ZoneAgent
                          /\ EventLog' = EventLog
                     [] in.status = "FAULT" ->
                          /\ ZoneAgent'[in.zone].status = "FAULT"
                          /\ Cardinality(DOMAIN EventLog' \ DOMAIN EventLog) = 1
                          /\ \A row \in AppendedEvents :
                                /\ row.zone_agent_id = in.zone
                                /\ row.event_type = "FAULT"
                                /\ row.resolved = FALSE
                          /\ \A id \in DOMAIN EventLog : EventLog'[id] = EventLog[id]
                     [] OTHER ->
                          /\ ZoneAgent'[in.zone].status = in.status
                          /\ Cardinality(DOMAIN EventLog' \ DOMAIN EventLog) = 1
                          /\ \A row \in AppendedEvents :
                                /\ row.zone_agent_id = in.zone
                                /\ row.event_type = "STATUS_UPDATE"
                                /\ row.resolved = TRUE
                          /\ \A id \in DOMAIN EventLog :
                                EventLog'[id] =
                                    IF /\ EventLog[id].zone_agent_id = in.zone
                                       /\ EventLog[id].event_type = "FAULT"
                                    THEN [EventLog[id] EXCEPT !.resolved = TRUE]
                                    ELSE EventLog[id]
          /\ IngestTelemetryFails(in) =>
                UNCHANGED <<ZoneAgent, EventLog, Relay, sensorReadings>>]_vars

\* Zone Z1 has reported NORMAL: its fault event is resolved, the one of zone
\* Z3 and the ones without a zone are not, and the status entry is resolved.
C27_Witness ==
    /\ ZoneAgent["Z1"].status = "NORMAL"
    /\ EventLog[1].resolved
    /\ ~EventLog[2].resolved
    /\ ~EventLog[3].resolved
    /\ \E id \in DOMAIN EventLog \ DOMAIN InitialEventLog :
          /\ EventLog[id].event_type = "STATUS_UPDATE"
          /\ EventLog[id].zone_agent_id = "Z1"
          /\ EventLog[id].resolved

\* ------------------------------------------------------------------------
\* POST /api/relay/restore-all on its own: every stored relay state
\* ------------------------------------------------------------------------

\* Table "DeviceAgent" as provisioned: zone Z2 has no device, every other
\* zone, the tie zone included, has one with an API key.
DeviceAgent ==
    [z \in Zones |-> [api_key_id |-> IF z = "Z2" THEN Null ELSE z]]

\* The rows of the handler's SELECT that pass its filter: the zones whose
\* relay is stored as OPEN.  The filter's other test, feeder_number !== null,
\* passes every row: the column is INT NOT NULL and the tie zone holds 99.
OpenRelays == { z \in DOMAIN Relay : Relay[z] = "OPEN" }

\* ORDER BY za.feeder_number ASC: rows of equal feeder number in any order.
RestoreOrders ==
    { o \in [1 .. Cardinality(OpenRelays) -> OpenRelays] :
        /\ \A i, j \in DOMAIN o : i # j => o[i] # o[j]
        /\ \A i, j \in DOMAIN o :
              i < j => ZoneAgent[o[i]].feeder_number <= ZoneAgent[o[j]].feeder_number }

\* One pass of the loop over openRelays: skip a zone without API key, else
\* publish CLOSED for relay 1 and, when that resolved, update the Relay row.
RestoreOne(zone, ok, st) ==
    IF DeviceAgent[zone].api_key_id = Null THEN st
    ELSE [relay |-> IF ok THEN [st.relay EXCEPT ![zone] = "CLOSED"] ELSE st.relay,
          published |-> Append(st.published,
                               RelayCommand([zone |-> zone, relayNumber |-> 1],
                                            "CLOSED", ~ok))]

RECURSIVE RestoreLoop(_, _, _)
RestoreLoop(rows, publishOk, st) ==
    IF rows = <<>> THEN st
    ELSE RestoreLoop(Tail(rows), publishOk,
                     RestoreOne(Head(rows), publishOk[Head(rows)], st))

\* POST /api/relay/restore-all.  publishOk: for each zone, whether
\* publishRelayCommand resolves.
RestoreAll(publishOk) ==
    /\ requests < MaxRequests
    /\ requests' = requests + 1
    /\ \E o \in RestoreOrders :
          LET st == RestoreLoop(o, publishOk, [relay |-> Relay, published |-> published])
          IN  /\ Relay' = st.relay
              /\ published' = st.published
    /\ UNCHANGED <<ZoneAgent, GridConnection, EventLog, eventSeq, FaultWaveform,
                   sensorReadings, runVars, listenerVars>>

\* Any stored state of the relays: a zone has a relay 1 or none, OPEN or
\* CLOSED.
RestoreInit ==
    /\ \E s \in LineScenarios : GridConnection = InitialConnections(s)
    /\ ZoneAgent = InitialZones
    /\ FaultWaveform = InitialWaveforms
    /\ EventLog = InitialEventLog
    /\ eventSeq = Cardinality(DOMAIN InitialEventLog)
    /\ sensorReadings = 0
    /\ \E D \in SUBSET Zones : Relay \in [D -> {"OPEN", "CLOSED"}]
    /\ published = <<>>
    /\ requests = 0
    /\ InitRuns
    /\ NoListener

RestoreNext ==
    \/ \E publishOk \in [Zones -> BOOLEAN] : RestoreAll(publishOk)
    \/ \E in \in RelayInputs : \E publishOk \in BOOLEAN : RelayControl(in, publishOk)

RestoreSpec == RestoreInit /\ [][RestoreNext]_vars

\* C29: restore-all sends CLOSED only to relays stored as OPEN, never to the
\* relay of the tie zone (feeder number 99), and sets a stored status to
\* CLOSED only for a relay whose command was published without error.
C29_RestoreAllSparesTie ==
    [][(\E publishOk \in [Zones -> BOOLEAN] : RestoreAll(publishOk)) =>
          /\ \A i \in DOMAIN published' \ DOMAIN published :
                /\ published'[i].command = "CLOSED"
                /\ published'[i].zoneId \in DOMAIN Relay
                /\ Relay[published'[i].zoneId] = "OPEN"
                /\ ZoneAgent[published'[i].zoneId].feeder_number # 99
          /\ \A z \in DOMAIN Relay :
                Relay'[z] # Relay[z] =>
                    /\ Relay'[z] = "CLOSED"
                    /\ \E i \in DOMAIN published' \ DOMAIN published :
                          /\ published'[i].zoneId = z
                          /\ ~published'[i].error]_vars

\* ------------------------------------------------------------------------
\* The MQTT telemetry listener on its own
\* ------------------------------------------------------------------------

\* The clients that have been created and not ended.
LiveClients == { c \in DOMAIN clients : clients[c].state # "ended" }

\* The shutdown handler has run: stopMqttTelemetryListener, then process.exit.
Exited == \E c \in DOMAIN clients : clients[c].state = "ended"

\* What mqtt.connect returns: a client that is connecting, with nothing
\* subscribed and no subscribe call pending.
NewClient == [state |-> "connecting", subscribing |-> FALSE, subscribed |-> FALSE]

\* startMqttTelemetryListener, called by instrumentation, by the mqtt/init
\* module or by POST /api/mqtt/init (whose own test is the same flag): returns
\* at once when isListening, else creates a client and stores it in
\* mqttListener; a client stored there before is neither ended nor kept.
startMqttTelemetryListener ==
    /\ requests < MaxRequests
    /\ ~Exited
    /\ requests' = requests + 1
    /\ IF isListening
       THEN UNCHANGED listenerVars
       ELSE /\ clients' = Append(clients, NewClient)
            /\ mqttListener' = Len(clients) + 1
            /\ UNCHANGED isListening
    /\ UNCHANGED <<storeVars, published, runVars>>

\* on('connect') of client c: subscribe is called on the client that
\* mqttListener refers to now.
OnConnect(c) ==
    /\ ~Exited
    /\ clients[c].state = "connecting"
    /\ clients' = [clients EXCEPT ![c].state = "connected",
                                  ![mqttListener].subscribing = TRUE]
    /\ UNCHANGED <<storeVars, published, requests, runVars, mqttListener, isListening>>

\* The callback of subscribe on client c: with an error nothing changes,
\* else isListening = true.  A SUBACK arrives only on a connected client.
OnSubscribe(c, err) ==
    /\ ~Exited
    /\ clients[c].subscribing
    /\ ~err => clients[c].state = "connected"
    /\ clients' = [clients EXCEPT ![c].subscribing = FALSE,
                                  ![c].subscribed = IF err THEN @ ELSE TRUE]
    /\ isListening' = IF err THEN isListening ELSE TRUE
    /\ UNCHANGED <<storeVars, published, requests, runVars, mqttListener>>

\* on('offline') of client c.
OnOffline(c) ==
    /\ ~Exited
    /\ clients[c].state \in {"connecting", "connected", "closed"}
    /\ clients' = [clients EXCEPT ![c].state = "offline", ![c].subscribed = FALSE]
    /\ isListening' = FALSE
    /\ UNCHANGED <<storeVars, published, requests, runVars, mqttListener>>

\* on('reconnect') of client c: it only logs.
OnReconnect(c) ==
    /\ ~Exited
    /\ clients[c].state \in {"closed", "offline"}
    /\ clients' = [clients EXCEPT ![c].state = "connecting"]
    /\ UNCHANGED <<storeVars, published, requests, runVars, mqttListener, isListening>>

\* on('close') of client c.
OnClose(c) ==
    /\ ~Exited
    /\ clients[c].state \in {"connecting", "connected", "offline"}
    /\ clients' = [clients EXCEPT ![c].state = "closed", ![c].subscribed = FALSE]
    /\ isListening' = FALSE
    /\ UNCHANGED <<storeVars, published, requests, runVars, mqttListener>>

\* stopMqttTelemetryListener, called by the shutdown handler only.
stopMqttTelemetryListener ==
    /\ ~Exited
    /\ mqttListener # 0
    /\ clients' = [clients EXCEPT ![mqttListener] =
                      [state |-> "ended", subscribing |-> FALSE, subscribed |-> FALSE]]
    /\ mqttListener' = 0
    /\ isListening' = FALSE
    /\ UNCHANGED <<storeVars, published, requests, runVars>>

ListenerNext ==
    \/ startMqttTelemetryListener
    \/ \E c \in DOMAIN clients : OnConnect(c)
    \/ \E c \in DOMAIN clients : \E err \in BOOLEAN : OnSubscribe(c, err)
    \/ \E c \in DOMAIN clients : OnOffline(c)
    \/ \E c \in DOMAIN clients : OnReconnect(c)
    \/ \E c \in DOMAIN clients : OnClose(c)
    \/ stopMqttTelemetryListener

ListenerSpec == Init /\ [][ListenerNext]_vars

\* C30: at most one listener client exists that has not been stopped, and
\* while isListening is true the client that mqttListener refers to exists
\* and is subscribed.
C30_AtMostOneListener ==
    /\ Cardinality(LiveClients) <= 1
    /\ isListening =>
          /\ mqttListener \in DOMAIN clients
          /\ clients[mqttListener].subscribed

====
